---- MODULE Spec2Model ----
(***************************************************************************)
(* A model of the Lennar listings scraper: the two fetchers                *)
(* (LennarScraper._make_request, ZillowLennarScraper._make_request), the   *)
(* scroll loops of the browser-driven fetch, the crawl loops               *)
(* (scrape_all_listings, scrape_multiple_locations) and the merge          *)
(* (combine_results of scrape.py), the run of scrape.py main around them   *)
(* and the parsers of a listing card                                       *)
(* (_parse_home_card, _parse_zillow_card, _parse_script_listings,          *)
(* _parse_price, _parse_location, _state_slug_to_abbrev, _parse_details),  *)
(* the links that scrape_all_listings follows (get_states,                 *)
(* get_communities_in_state, get_listings_from_community) and the calls on *)
(* one Zillow scraper (scrape_lennar_profile, scrape_multiple_locations).  *)
(*                                                                         *)
(* The server, the browser and the HTML parser are the environment: what   *)
(* they answer is drawn from small sets.  Each subsystem has its own       *)
(* specification (SpecFetch, SpecPage, SpecCrawl, SpecMerge, SpecParse,    *)
(* SpecMain, SpecWalk, SpecZillow)                                         *)
(* over the one set of variables; a specification leaves the other         *)
(* subsystems' variables at their initial value.                           *)
(***************************************************************************)
EXTENDS Integers, Sequences, FiniteSets, TLC

(***************************************************************************)
(* Bounds of the model.                                                    *)
(***************************************************************************)
\* largest retry_count a call is made with; also the length of a server script
MaxRetry == 4
\* calls are made while the session has seen fewer User-Agent draws than this
MaxDraws == 3
\* a content source is told trigger by trigger for this many triggers, then uniformly
MaxPrefix == 3
\* scroll triggers a browser session is followed for
MaxScrolls == 102
\* nodes discovered under one parent: states, communities of a state, locations
MaxNodes == 5
\* nodes that fail in one crawl
MaxFailures == 1
\* listing cards on one page
CardsPerPage == 2
\* links of one kind in one document
MaxLinks == 2
\* operations called on one Zillow scraper
MaxOps == 3
\* listings the two scrapers hold together when their results are combined
MaxListings == 2
\* characters of a text handed to _parse_price / _extract_price
MaxText == 3

(***************************************************************************)
(* Program constants.                                                      *)
(***************************************************************************)
\* retry_count: int = 3, the default of both _make_request
DefaultRetry == 3
\* for _ in range(5), the scroll loop of ZillowLennarScraper._scrape_with_selenium
ZillowScrolls == 5

VARIABLES
    session_ua,     \* the session's User-Agent: the index of the ua.random draw that set it
    last_call,      \* the _make_request call that has returned and is not yet consumed
    pg,             \* the browser-driven fetch under way: where it is, and the page
    crawl,          \* the crawl under way: where it is, what it has gathered
    lennar_listings,    \* LennarScraper.listings
    zillow_listings,    \* ZillowLennarScraper.listings
    merge,          \* scrape.py: whether combine_results has run, and what it returned
    parsed,         \* the last call of a parser: what it was given, what it returned
    run,            \* a run of scrape.py main: where it is, the scrapers it made and closed
    walk,           \* scrape_all_listings over the links of the pages: what it found and visited
    ops             \* the operations called on the Zillow scraper, and what each of them got

fetchVars == <<session_ua, last_call>>
listingVars == <<lennar_listings, zillow_listings>>

vars ==
    <<session_ua, last_call, pg, crawl, lennar_listings, zillow_listings, merge, parsed, run,
      walk, ops>>

(***************************************************************************)
(* Helpers.                                                                *)
(***************************************************************************)
RECURSIVE Pow2(_)
Pow2(k) == IF k <= 0 THEN 1 ELSE 2 * Pow2(k - 1)

SeqsOf(S, n) == [1..n -> S]

(***************************************************************************)
(* The fetchers.                                                           *)
(*                                                                         *)
(* What the server answers to the successive requests of one call is a     *)
(* script: script[k+1] is the outcome of attempt k.  "ok" is a 2xx answer; *)
(* "timeout" a connection error or timeout; "http429", "http503" and       *)
(* "http404" an answer on which raise_for_status raises HTTPError.  A      *)
(* malformed URL makes session.get raise MissingSchema / InvalidURL at     *)
(* every attempt ("badurl").  All of these but "ok" are                    *)
(* requests.exceptions.RequestException.                                   *)
(***************************************************************************)
Outcomes == {"ok", "timeout", "http429", "http503", "http404"}
Urls == {"valid", "malformed"}
Methods == {"GET", "POST", "PUT"}
Sites == {"lennar", "zillow"}
Scripts == SeqsOf(Outcomes, MaxRetry)

\* the outcome of attempt k (0-based) of a call for url under script
AttemptOutcome(url, script, k) ==
    IF url = "malformed" THEN "badurl" ELSE script[k + 1]

\* an entry of a call's trace
Ev(ev, k, v) == [ev |-> ev, k |-> k, v |-> v]

\* what a call returns: "Response", "None", or the exception it lets through
Returned(result, ua, trace) == [result |-> result, ua |-> ua, trace |-> trace]

\* what the except handler of a failed attempt leaves: the session's User-Agent
\* and the trace
Handled(ua, trace) == [ua |-> ua, trace |-> trace]

\* a backoff that sleeps one second before every retry
BackoffDelayFlat(attempt) == 1

\* time.sleep(2 ** attempt)
BackoffDelay(attempt) == Pow2(attempt)

\* the handler of LennarExcept without the draw of a new User-Agent
LennarExceptNoRotation(attempt, retry_count, ua, trace) ==
    IF attempt < retry_count - 1
    THEN Handled(ua, Append(trace, Ev("sleep", attempt, BackoffDelay(attempt))))
    ELSE Handled(ua, trace)

\* LennarScraper._make_request, except requests.exceptions.RequestException:
\* sleep, then draw a new User-Agent, unless this was the last attempt
LennarExcept(attempt, retry_count, ua, trace) ==
    IF attempt < retry_count - 1
    THEN Handled(ua + 1, trace \o << Ev("sleep", attempt, BackoffDelay(attempt)),
                                     Ev("rotate", attempt, ua + 1) >>)
    ELSE Handled(ua, trace)

\* the handler of ZillowExcept that sleeps after the last attempt too
ZillowExceptSleepsAlways(attempt, retry_count, ua, trace) ==
    Handled(ua, Append(trace, Ev("sleep", attempt, BackoffDelay(attempt))))

\* ZillowLennarScraper._make_request, except requests.exceptions.RequestException:
\* sleep unless this was the last attempt
ZillowExcept(attempt, retry_count, ua, trace) ==
    IF attempt < retry_count - 1
    THEN Handled(ua, Append(trace, Ev("sleep", attempt, BackoffDelay(attempt))))
    ELSE Handled(ua, trace)

\* LennarScraper._make_request, from the loop's iteration `attempt` on, with the
\* session's User-Agent ua and the trace so far
RECURSIVE LennarAttempts(_, _, _, _, _, _, _)
LennarAttempts(method, url, script, retry_count, attempt, ua, trace) ==
    IF attempt >= retry_count
    THEN Returned("None", ua, trace)
    ELSE IF method \notin {"GET", "POST"}
    THEN Returned("ValueError", ua, trace)
    ELSE LET out  == AttemptOutcome(url, script, attempt)
             sent == Append(trace, Ev("request", attempt, ua))
             h    == LennarExcept(attempt, retry_count, ua, sent)
         IN  IF out = "ok"
             THEN Returned("Response", ua, sent)
             ELSE LennarAttempts(method, url, script, retry_count, attempt + 1,
                                 h.ua, h.trace)

LennarMakeRequestRun(method, url, script, retry_count, ua) ==
    LennarAttempts(method, url, script, retry_count, 0, ua, << >>)

\* ZillowLennarScraper._make_request, likewise: the User-Agent is drawn anew at
\* the start of every attempt
RECURSIVE ZillowAttempts(_, _, _, _, _, _)
ZillowAttempts(url, script, retry_count, attempt, ua, trace) ==
    IF attempt >= retry_count
    THEN Returned("None", ua, trace)
    ELSE LET out  == AttemptOutcome(url, script, attempt)
             sent == trace \o << Ev("rotate", attempt, ua + 1),
                                 Ev("request", attempt, ua + 1) >>
             h    == ZillowExcept(attempt, retry_count, ua + 1, sent)
         IN  IF out = "ok"
             THEN Returned("Response", ua + 1, sent)
             ELSE ZillowAttempts(url, script, retry_count, attempt + 1, h.ua, h.trace)

ZillowMakeRequestRun(url, script, retry_count, ua) ==
    ZillowAttempts(url, script, retry_count, 0, ua, << >>)

NoCall == [site |-> "none"]

Call(site, method, url, script, retry_count, ua0, ret) ==
    [site |-> site, method |-> method, url |-> url, script |-> script,
     retry_count |-> retry_count, ua0 |-> ua0,
     result |-> ret.result, trace |-> ret.trace]

\* a call of LennarScraper._make_request
LennarMakeRequest ==
    /\ last_call = NoCall
    /\ session_ua < MaxDraws
    /\ \E method \in Methods, url \in Urls, script \in Scripts, n \in 0..MaxRetry :
         LET ret == LennarMakeRequestRun(method, url, script, n, session_ua)
         IN  /\ session_ua' = ret.ua
             /\ last_call' = Call("lennar", method, url, script, n, session_ua, ret)
    /\ UNCHANGED <<pg, crawl, listingVars, merge, parsed, run, walk, ops>>

\* a call of ZillowLennarScraper._make_request
ZillowMakeRequest ==
    /\ last_call = NoCall
    /\ session_ua < MaxDraws
    /\ \E url \in Urls, script \in Scripts, n \in 0..MaxRetry :
         LET ret == ZillowMakeRequestRun(url, script, n, session_ua)
         IN  /\ session_ua' = ret.ua
             /\ last_call' = Call("zillow", "GET", url, script, n, session_ua, ret)
    /\ UNCHANGED <<pg, crawl, listingVars, merge, parsed, run, walk, ops>>

\* the caller takes the returned value; the session keeps its User-Agent
ConsumeResponse ==
    /\ last_call # NoCall
    /\ last_call' = NoCall
    /\ UNCHANGED <<session_ua, pg, crawl, listingVars, merge, parsed, run, walk, ops>>

(***************************************************************************)
(* The browser-driven fetch: scrape_with_selenium (Lennar) and             *)
(* _scrape_with_selenium (Zillow).                                         *)
(*                                                                         *)
(* A content source says on which scroll triggers the page grows: on       *)
(* trigger t <= Len(prefix) if prefix[t], on every later one if tail.      *)
(* pg.height is document.body.scrollHeight; pg.triggers counts the         *)
(* window.scrollTo calls.  pc is "idle" before the page is opened, "loop"  *)
(* inside the scroll loop, "stable" when the loop has ended and            *)
(* page_source is returned, "failed" when the except clause returned "",   *)
(* "raised" when _setup_selenium raised.                                   *)
(***************************************************************************)
Sources ==
    UNION { [prefix : SeqsOf(BOOLEAN, n), tail : BOOLEAN] : n \in 0..MaxPrefix }

Grows(source, t) ==
    IF t <= Len(source.prefix) THEN source.prefix[t] ELSE source.tail

\* document.body.scrollHeight when the page has loaded
InitialHeight == 1

NoPage ==
    [site |-> "none", pc |-> "idle", source |-> [prefix |-> << >>, tail |-> FALSE],
     height |-> 0, last_height |-> 0, triggers |-> 0]

\* if new_height == last_height: break
LennarScrollEnds(new_height, last_height) == new_height = last_height

\* self._setup_selenium(); self.driver.get(url); time.sleep(3);
\* last_height = document.body.scrollHeight
LennarOpenPage ==
    /\ pg.pc = "idle"
    /\ \E source \in Sources :
         pg' = [site |-> "lennar", pc |-> "loop", source |-> source,
                height |-> InitialHeight, last_height |-> InitialHeight, triggers |-> 0]
    /\ UNCHANGED <<fetchVars, crawl, listingVars, merge, parsed, run, walk, ops>>

\* one iteration of while True: scroll to the bottom, sleep, read the height again
LennarScroll ==
    /\ pg.site = "lennar"
    /\ pg.pc = "loop"
    /\ pg.triggers < MaxScrolls
    /\ LET t == pg.triggers + 1
           new_height == IF Grows(pg.source, t) THEN pg.height + 1 ELSE pg.height
       IN  pg' = [pg EXCEPT !.triggers = t,
                            !.height = new_height,
                            !.last_height = new_height,
                            !.pc = IF LennarScrollEnds(new_height, pg.last_height)
                                   THEN "stable" ELSE "loop"]
    /\ UNCHANGED <<fetchVars, crawl, listingVars, merge, parsed, run, walk, ops>>

\* self._setup_selenium(); self.driver.get(url); time.sleep(3)
ZillowOpenPage ==
    /\ pg.pc = "idle"
    /\ \E source \in Sources :
         pg' = [site |-> "zillow", pc |-> "loop", source |-> source,
                height |-> InitialHeight, last_height |-> 0, triggers |-> 0]
    /\ UNCHANGED <<fetchVars, crawl, listingVars, merge, parsed, run, walk, ops>>

\* one iteration of for _ in range(5): scroll to the bottom, sleep
ZillowScroll ==
    /\ pg.site = "zillow"
    /\ pg.pc = "loop"
    /\ pg.triggers < ZillowScrolls
    /\ LET t == pg.triggers + 1
       IN  pg' = [pg EXCEPT !.triggers = t,
                            !.height = IF Grows(pg.source, t) THEN @ + 1 ELSE @,
                            !.pc = IF t = ZillowScrolls THEN "stable" ELSE "loop"]
    /\ UNCHANGED <<fetchVars, crawl, listingVars, merge, parsed, run, walk, ops>>

\* the driver raises inside the try block: except Exception: return ""
SeleniumError ==
    /\ pg.pc = "loop"
    /\ pg' = [pg EXCEPT !.pc = "failed"]
    /\ UNCHANGED <<fetchVars, crawl, listingVars, merge, parsed, run, walk, ops>>

\* _setup_selenium raises (it is called before the try block): the caller gets the exception
SetupSeleniumRaises ==
    /\ pg.pc = "idle"
    /\ \E site \in Sites : pg' = [pg EXCEPT !.site = site, !.pc = "raised"]
    /\ UNCHANGED <<fetchVars, crawl, listingVars, merge, parsed, run, walk, ops>>

PageNext ==
    \/ LennarOpenPage
    \/ LennarScroll
    \/ ZillowOpenPage
    \/ ZillowScroll
    \/ SeleniumError
    \/ SetupSeleniumRaises

(***************************************************************************)
(* The crawls: LennarScraper.scrape_all_listings over states and their     *)
(* communities, ZillowLennarScraper.scrape_multiple_locations over         *)
(* locations, and the one-page operations search_homes and                 *)
(* scrape_lennar_profile.                                                  *)
(*                                                                         *)
(* A node is fetched with _make_request under a script of the server, or   *)
(* with the browser; the page is then parsed, and parsing either returns   *)
(* or raises (soup.select on a selector the parser rejects, urljoin on an  *)
(* href such as "//[/community/x").  The n states of a crawl are available_states after the      *)
(* filter of line 534; a state whose page parses lists m communities; a    *)
(* page of listings holds CardsPerPage cards.  crawl.failed is the set of  *)
(* nodes that failed, crawl.last the last node visited.  A crawl reads of  *)
(* a fetch what it returned; the User-Agent the fetch leaves the session   *)
(* with is followed in SpecFetch.                                          *)
(***************************************************************************)
Uniform(o) == [k \in 1..MaxRetry |-> o]
Recovering(f) == [k \in 1..MaxRetry |-> IF k <= f THEN "timeout" ELSE "ok"]
NodeScripts == {Uniform(o) : o \in Outcomes} \cup {Recovering(f) : f \in 1..(MaxRetry - 1)}
NoScript == << >>

\* what the browser-driven fetch hands back: the page, "" or the exception of
\* _setup_selenium
SeleniumResults == {"page_source", "blank", "SetupError"}
Parses == {"ok", "raises"}

LennarFetch(script, ua) == LennarMakeRequestRun("GET", "valid", script, DefaultRetry, ua)
ZillowFetch(script, ua) == ZillowMakeRequestRun("valid", script, DefaultRetry, ua)

\* what a caller makes of what it fetched: it raises, or returns what it found
Raises == [raised |-> TRUE, yielded |-> << >>]
Returns(yielded) == [raised |-> FALSE, yielded |-> yielded]

Cards(site, i, j) ==
    [c \in 1..CardsPerPage |-> [site |-> site, state |-> i, node |-> j, card |-> c]]

\* LennarScraper.get_states, then the filter of scrape_all_listings: n states
\* from the page, or from _get_fallback_states when the fetch gave None
GetStates(fetched, parse, n) ==
    IF fetched = "None" THEN Returns([k \in 1..n |-> k])
    ELSE IF parse = "raises" THEN Raises
    ELSE Returns([k \in 1..n |-> k])

\* get_communities_in_state without the test of the response
GetCommunitiesUnchecked(fetched, parse, i, m) ==
    IF fetched = "None" \/ parse = "raises" THEN Raises
    ELSE Returns([j \in 1..m |-> <<i, j>>])

\* LennarScraper.get_communities_in_state
GetCommunitiesInState(fetched, parse, i, m) ==
    IF fetched = "None" THEN Returns(<< >>)
    ELSE IF parse = "raises" THEN Raises
    ELSE Returns([j \in 1..m |-> <<i, j>>])

\* LennarScraper.get_listings_from_community
GetListingsFromCommunity(fetched, parse, i, j) ==
    IF fetched = "None" THEN Returns(<< >>)
    ELSE IF parse = "raises" THEN Raises
    ELSE Returns(Cards("lennar", i, j))

\* LennarScraper.search_homes
SearchHomes(fetched, parse) ==
    IF fetched = "SetupError" THEN Raises
    ELSE IF fetched = "None" THEN Returns(<< >>)
    ELSE IF parse = "raises" THEN Raises
    ELSE IF fetched = "blank" THEN Returns(<< >>)
    ELSE Returns(Cards("lennar", 0, 0))

\* ZillowLennarScraper.search_zillow_new_construction
SearchZillowNewConstruction(fetched, parse, l) ==
    IF fetched = "SetupError" THEN Raises
    ELSE IF fetched = "None" THEN Returns(<< >>)
    ELSE IF parse = "raises" THEN Raises
    ELSE IF fetched = "blank" THEN Returns(<< >>)
    ELSE Returns(Cards("zillow", 0, l))

\* ZillowLennarScraper.scrape_lennar_profile, up to self.listings.extend
ScrapeLennarProfile(fetched, parse) ==
    IF fetched = "SetupError" THEN Raises
    ELSE IF fetched = "None" THEN Returns(<< >>)
    ELSE IF parse = "raises" THEN Raises
    ELSE IF fetched = "blank" THEN Returns(<< >>)
    ELSE Returns(Cards("zillow", 0, 0))

NoVisit == [level |-> "none"]

Visit(level, i, j, script, fetched, out) ==
    [level |-> level, state |-> i, node |-> j, script |-> script, fetched |-> fetched,
     raised |-> out.raised, yielded |-> out.yielded]

NoCrawl ==
    [kind |-> "none", pc |-> "idle", use_selenium |-> FALSE, n |-> 0, m |-> 0,
     i |-> 0, j |-> 0, all_listings |-> << >>, failed |-> {}, last |-> NoVisit]

\* the node failed: nothing was fetched, or parsing raised
Failed(fetched, parse) ==
    fetched \in {"None", "blank", "SetupError"} \/ parse = "raises"

\* the choices of the environment that are told apart, within the failures allowed
Allowed(fetched, parse) ==
    /\ fetched \in {"None", "blank", "SetupError"} => parse = "ok"
    /\ Failed(fetched, parse) => Cardinality(crawl.failed) < MaxFailures

FailedWith(fetched, parse, node) ==
    IF Failed(fetched, parse) THEN crawl.failed \cup {node} ELSE crawl.failed

\* scrape_all_listings up to its loop: get_states and the filter
LennarStart ==
    /\ crawl.pc = "idle"
    /\ \E script \in NodeScripts, parse \in Parses, n \in 0..MaxNodes, m \in 0..MaxNodes :
         LET ret == LennarFetch(script, session_ua)
             out == GetStates(ret.result, parse, n)
         IN  /\ ret.result = "None" => parse = "ok"
             /\ crawl' = [crawl EXCEPT
                    !.kind = "lennar",
                    !.pc = IF out.raised THEN "raised" ELSE "states",
                    !.n = Len(out.yielded),
                    !.m = m,
                    !.last = Visit("root", 0, 0, script, ret.result, out)]
    /\ UNCHANGED <<fetchVars, pg, listingVars, merge, parsed, run, walk, ops>>

\* for state in available_states: communities = self.get_communities_in_state(...)
LennarVisitState ==
    /\ crawl.kind = "lennar"
    /\ crawl.pc = "states"
    /\ crawl.i < crawl.n
    /\ \E script \in NodeScripts, parse \in Parses :
         LET i   == crawl.i + 1
             ret == LennarFetch(script, session_ua)
             out == GetCommunitiesInState(ret.result, parse, i, crawl.m)
         IN  /\ Allowed(ret.result, parse)
             /\ crawl' = [crawl EXCEPT
                    !.i = i,
                    !.j = 0,
                    !.pc = IF out.raised THEN "raised"
                           ELSE IF Len(out.yielded) = 0 THEN "states"
                           ELSE "communities",
                    !.failed = FailedWith(ret.result, parse, <<"state", i, 0>>),
                    !.last = Visit("state", i, 0, script, ret.result, out)]
    /\ UNCHANGED <<fetchVars, pg, listingVars, merge, parsed, run, walk, ops>>

\* for community in communities: try: listings = self.get_listings_from_community(...);
\* all_listings.extend(listings); except Exception: logger.error(...)
LennarVisitCommunity ==
    /\ crawl.kind = "lennar"
    /\ crawl.pc = "communities"
    /\ crawl.j < crawl.m
    /\ \E script \in NodeScripts, parse \in Parses :
         LET j   == crawl.j + 1
             ret == LennarFetch(script, session_ua)
             out == GetListingsFromCommunity(ret.result, parse, crawl.i, j)
         IN  /\ Allowed(ret.result, parse)
             /\ crawl' = [crawl EXCEPT
                    !.j = j,
                    !.pc = IF j = crawl.m THEN "states" ELSE "communities",
                    !.all_listings = @ \o out.yielded,
                    !.failed = FailedWith(ret.result, parse, <<"community", crawl.i, j>>),
                    !.last = Visit("community", crawl.i, j, script, ret.result, out)]
    /\ UNCHANGED <<fetchVars, pg, listingVars, merge, parsed, run, walk, ops>>

\* self.listings = all_listings; return all_listings
LennarFinish ==
    /\ crawl.kind = "lennar"
    /\ crawl.pc = "states"
    /\ crawl.i = crawl.n
    /\ crawl' = [crawl EXCEPT !.pc = "done"]
    /\ lennar_listings' = crawl.all_listings
    /\ UNCHANGED <<fetchVars, pg, zillow_listings, merge, parsed, run, walk, ops>>

\* scrape_multiple_locations up to its loop
ZillowStart ==
    /\ crawl.pc = "idle"
    /\ \E n \in 0..MaxNodes, use_selenium \in BOOLEAN :
         crawl' = [crawl EXCEPT !.kind = "zillow", !.pc = "locations", !.n = n,
                                !.use_selenium = use_selenium]
    /\ UNCHANGED <<fetchVars, pg, listingVars, merge, parsed, run, walk, ops>>

\* for location in locations: try: listings = self.search_zillow_new_construction(...);
\* all_listings.extend(listings); except Exception: logger.error(...)
ZillowVisitLocation ==
    /\ crawl.kind = "zillow"
    /\ crawl.pc = "locations"
    /\ crawl.i < crawl.n
    /\ \E script \in NodeScripts \cup {NoScript}, browsed \in SeleniumResults, parse \in Parses :
         LET l   == crawl.i + 1
             ret == IF crawl.use_selenium
                    THEN Returned(browsed, session_ua, << >>)
                    ELSE ZillowFetch(script, session_ua)
             out == SearchZillowNewConstruction(ret.result, parse, l)
         IN  /\ crawl.use_selenium <=> script = NoScript
             /\ ~crawl.use_selenium => browsed = "page_source"
             /\ Allowed(ret.result, parse)
             /\ crawl' = [crawl EXCEPT
                    !.i = l,
                    !.all_listings = @ \o out.yielded,
                    !.failed = FailedWith(ret.result, parse, <<"location", 0, l>>),
                    !.last = Visit("location", 0, l, script, ret.result, out)]
    /\ UNCHANGED <<fetchVars, pg, listingVars, merge, parsed, run, walk, ops>>

\* self.listings = all_listings; return all_listings
ZillowFinish ==
    /\ crawl.kind = "zillow"
    /\ crawl.pc = "locations"
    /\ crawl.i = crawl.n
    /\ crawl' = [crawl EXCEPT !.pc = "done"]
    /\ zillow_listings' = crawl.all_listings
    /\ UNCHANGED <<fetchVars, pg, lennar_listings, merge, parsed, run, walk, ops>>

\* a call of LennarScraper.search_homes (it leaves self.listings to its caller)
LennarSearchHomes ==
    /\ crawl.pc = "idle"
    /\ \E script \in NodeScripts \cup {NoScript}, browsed \in SeleniumResults, parse \in Parses,
          use_selenium \in BOOLEAN :
         LET ret == IF use_selenium
                    THEN Returned(browsed, session_ua, << >>)
                    ELSE LennarFetch(script, session_ua)
             out == SearchHomes(ret.result, parse)
         IN  /\ use_selenium <=> script = NoScript
             /\ ~use_selenium => browsed = "page_source"
             /\ Allowed(ret.result, parse)
             /\ crawl' = [crawl EXCEPT
                    !.kind = "search",
                    !.use_selenium = use_selenium,
                    !.pc = IF out.raised THEN "raised" ELSE "done",
                    !.all_listings = out.yielded,
                    !.failed = FailedWith(ret.result, parse, <<"search", 0, 0>>),
                    !.last = Visit("search", 0, 0, script, ret.result, out)]
    /\ UNCHANGED <<fetchVars, pg, listingVars, merge, parsed, run, walk, ops>>

\* a call of ZillowLennarScraper.scrape_lennar_profile
ZillowScrapeLennarProfile ==
    /\ crawl.pc = "idle"
    /\ \E script \in NodeScripts \cup {NoScript}, browsed \in SeleniumResults, parse \in Parses,
          use_selenium \in BOOLEAN :
         LET ret == IF use_selenium
                    THEN Returned(browsed, session_ua, << >>)
                    ELSE ZillowFetch(script, session_ua)
             out == ScrapeLennarProfile(ret.result, parse)
         IN  /\ use_selenium <=> script = NoScript
             /\ ~use_selenium => browsed = "page_source"
             /\ Allowed(ret.result, parse)
             /\ crawl' = [crawl EXCEPT
                    !.kind = "profile",
                    !.use_selenium = use_selenium,
                    !.pc = IF out.raised THEN "raised" ELSE "done",
                    !.all_listings = out.yielded,
                    !.failed = FailedWith(ret.result, parse, <<"profile", 0, 0>>),
                    !.last = Visit("profile", 0, 0, script, ret.result, out)]
             /\ zillow_listings' =
                    IF out.raised \/ ret.result = "None" THEN zillow_listings
                    ELSE zillow_listings \o out.yielded
    /\ UNCHANGED <<fetchVars, pg, lennar_listings, merge, parsed, run, walk, ops>>

CrawlNext ==
    \/ LennarStart
    \/ LennarVisitState
    \/ LennarVisitCommunity
    \/ LennarFinish
    \/ ZillowStart
    \/ ZillowVisitLocation
    \/ ZillowFinish
    \/ LennarSearchHomes
    \/ ZillowScrapeLennarProfile

(***************************************************************************)
(* The merge: combine_results of scrape.py.                                *)
(*                                                                         *)
(* Of a listing the merge reads the address (LennarListing.location,       *)
(* ZillowLennarListing.address), the community name and the price string.  *)
(***************************************************************************)
Locations == {"", "1 Elm St", "1 elm st"}
Communities == {"", "Oak"}
Prices == {"", "$500,000", "$500000"}

LennarListings == [location : Locations, community_name : Communities, price : Prices]
ZillowListings == [address : Locations, community_name : Communities, price : Prices]

\* a key that does not fall back on the community name
LennarKeyNoFallback(listing) == << listing.location, listing.price >>

\* key = (listing.location or listing.community_name, listing.price)
LennarKey(listing) ==
    << IF listing.location # "" THEN listing.location ELSE listing.community_name,
       listing.price >>

\* key = (listing.address, listing.price)
ZillowKey(listing) == << listing.address, listing.price >>

\* the rows appended to combined
LennarRow(listing) ==
    [source |-> "Lennar.com", community_name |-> listing.community_name,
     address |-> listing.location, price |-> listing.price]

ZillowRow(listing) ==
    [source |-> "Zillow", community_name |-> listing.community_name,
     address |-> listing.address, price |-> listing.price]

\* a merge that does not record the keys it has seen
RememberNothing(seen_addresses, key) == seen_addresses

\* seen_addresses.add(key)
Remember(seen_addresses, key) == seen_addresses \cup {key}

Merged(combined, seen_addresses) == [combined |-> combined, seen_addresses |-> seen_addresses]

\* for listing in lennar_scraper.listings: ..., from the k-th listing on
RECURSIVE CombineLennar(_, _, _)
CombineLennar(listings, k, acc) ==
    IF k > Len(listings) THEN acc
    ELSE LET key == LennarKey(listings[k])
         IN  IF key \notin acc.seen_addresses
             THEN CombineLennar(listings, k + 1,
                      Merged(Append(acc.combined, LennarRow(listings[k])),
                             Remember(acc.seen_addresses, key)))
             ELSE CombineLennar(listings, k + 1, acc)

\* for listing in zillow_scraper.listings: ..., from the k-th listing on
RECURSIVE CombineZillow(_, _, _)
CombineZillow(listings, k, acc) ==
    IF k > Len(listings) THEN acc
    ELSE LET key == ZillowKey(listings[k])
         IN  IF key \notin acc.seen_addresses
             THEN CombineZillow(listings, k + 1,
                      Merged(Append(acc.combined, ZillowRow(listings[k])),
                             Remember(acc.seen_addresses, key)))
             ELSE CombineZillow(listings, k + 1, acc)

\* combine_results(lennar_scraper, zillow_scraper), of the listings the two hold
combine_results(lennar, zillow) ==
    CombineZillow(zillow, 1, CombineLennar(lennar, 1, Merged(<< >>, {}))).combined

NotMerged == [pc |-> "scraping", combined |-> << >>]

\* the Lennar scraper has gathered one more listing
LennarGathers ==
    /\ merge.pc = "scraping"
    /\ Len(lennar_listings) + Len(zillow_listings) < MaxListings
    /\ \E listing \in LennarListings : lennar_listings' = Append(lennar_listings, listing)
    /\ UNCHANGED <<fetchVars, pg, crawl, zillow_listings, merge, parsed, run, walk, ops>>

\* the Zillow scraper has gathered one more listing
ZillowGathers ==
    /\ merge.pc = "scraping"
    /\ Len(lennar_listings) + Len(zillow_listings) < MaxListings
    /\ \E listing \in ZillowListings : zillow_listings' = Append(zillow_listings, listing)
    /\ UNCHANGED <<fetchVars, pg, crawl, lennar_listings, merge, parsed, run, walk, ops>>

\* listings = combine_results(lennar_scraper, zillow_scraper)
CombineResults ==
    /\ merge.pc = "scraping"
    /\ merge' = [pc |-> "combined",
                 combined |-> combine_results(lennar_listings, zillow_listings)]
    /\ UNCHANGED <<fetchVars, pg, crawl, listingVars, parsed, run, walk, ops>>

MergeNext ==
    \/ LennarGathers
    \/ ZillowGathers
    \/ CombineResults

(***************************************************************************)
(* The parsers of a listing.                                               *)
(*                                                                         *)
(* A text is a sequence of characters.  An element looked up in a card     *)
(* with select_one is found, with its text, or not found.  An Optional[int]*)
(* is NoneInt or SomeInt(n).  What the regular expressions of              *)
(* _parse_home_card match in the card's full text is given with the card:  *)
(* no match, or the group matched.                                         *)
(***************************************************************************)
Digits == {"0", "1", "2", "3", "4", "5", "6", "7", "8", "9"}

DigitValue(c) ==
    CASE c = "0" -> 0 [] c = "1" -> 1 [] c = "2" -> 2 [] c = "3" -> 3 [] c = "4" -> 4
      [] c = "5" -> 5 [] c = "6" -> 6 [] c = "7" -> 7 [] c = "8" -> 8 [] c = "9" -> 9

DigitChar(d) ==
    CASE d = 0 -> "0" [] d = 1 -> "1" [] d = 2 -> "2" [] d = 3 -> "3" [] d = 4 -> "4"
      [] d = 5 -> "5" [] d = 6 -> "6" [] d = 7 -> "7" [] d = 8 -> "8" [] d = 9 -> "9"

\* the characters the texts of the model are written with
Alphabet == {"$", ",", "0", "5", "C"}
Texts == UNION { SeqsOf(Alphabet, n) : n \in 0..MaxText }

NoneInt == [some |-> FALSE, v |-> 0]
SomeInt(n) == [some |-> TRUE, v |-> n]

IsDigit(c) == c \in Digits
IsNotCurrency(c) == c \notin {"$", ","}

\* a cleaning that removes the currency sign and the commas only
CleanCurrencyOnly(price_text) == SelectSeq(price_text, IsNotCurrency)

\* re.sub(r'[^\d]', '', price_text)
Clean(price_text) == SelectSeq(price_text, IsDigit)

\* int(clean), of a text of digits
RECURSIVE IntOf(_)
IntOf(clean) ==
    IF clean = << >> THEN 0
    ELSE 10 * IntOf(SubSeq(clean, 1, Len(clean) - 1)) + DigitValue(clean[Len(clean)])

\* int(clean) raises ValueError on a text that is not all digits
IntRaises(clean) == \E i \in DOMAIN clean : clean[i] \notin Digits

\* LennarScraper._parse_price
ParsePrice(price_text) ==
    LET clean == Clean(price_text)
    IN  IF clean # << >>
        THEN IF IntRaises(clean) THEN NoneInt ELSE SomeInt(IntOf(clean))
        ELSE NoneInt

\* ZillowLennarScraper._extract_price
ExtractPrice(price_text) ==
    LET clean == Clean(price_text)
    IN  IF clean # << >>
        THEN IF IntRaises(clean) THEN NoneInt ELSE SomeInt(IntOf(clean))
        ELSE NoneInt

\* str(n) of a number n >= 0
RECURSIVE DecimalOf(_)
DecimalOf(n) ==
    IF n < 10 THEN << DigitChar(n) >>
    ELSE Append(DecimalOf(n \div 10), DigitChar(n % 10))

\* the thousands separators of the format ","
RECURSIVE WithCommas(_)
WithCommas(ds) ==
    IF Len(ds) <= 3 THEN ds
    ELSE WithCommas(SubSeq(ds, 1, Len(ds) - 3)) \o <<",">> \o SubSeq(ds, Len(ds) - 2, Len(ds))

\* f"${price:,}"
FormatPrice(price) == <<"$">> \o WithCommas(DecimalOf(price))

\* LennarScraper._extract_number: re.search(r'[\d,.]+', text), group(0) or ""
NumberChars == Digits \cup {",", "."}

RECURSIVE RunFrom(_, _)
RunFrom(text, i) ==
    IF i > Len(text) \/ text[i] \notin NumberChars THEN << >>
    ELSE << text[i] >> \o RunFrom(text, i + 1)

RECURSIVE ExtractNumberFrom(_, _)
ExtractNumberFrom(text, i) ==
    IF i > Len(text) THEN << >>
    ELSE IF text[i] \in NumberChars THEN RunFrom(text, i)
    ELSE ExtractNumberFrom(text, i + 1)

ExtractNumber(text) == ExtractNumberFrom(text, 1)

IsNotComma(c) == c # ","

\* .replace(',', '')
RemoveCommas(text) == SelectSeq(text, IsNotComma)

\* select_one: None, or an element with its text
NoElem == [found |-> FALSE, text |-> << >>]
Elem(text) == [found |-> TRUE, text |-> text]

\* re.search over card.get_text(): None, or a match with its group(1)
NoMatch == [matched |-> FALSE, group |-> << >>]
Match(group) == [matched |-> TRUE, group |-> group]

(***************************************************************************)
(* Location, state and house type.                                         *)
(***************************************************************************)
\* the characters of a string literal of the source or of a page
Word(str) ==
    CASE str = "" -> << >>
      [] str = "townhome" -> <<"t", "o", "w", "n", "h", "o", "m", "e">>
      [] str = "townhouse" -> <<"t", "o", "w", "n", "h", "o", "u", "s", "e">>
      [] str = "condo" -> <<"c", "o", "n", "d", "o">>
      [] str = "single family" -> <<"s", "i", "n", "g", "l", "e", " ", "f", "a", "m", "i", "l", "y">>
      [] str = "single-family" -> <<"s", "i", "n", "g", "l", "e", "-", "f", "a", "m", "i", "l", "y">>
      [] str = "house" -> <<"h", "o", "u", "s", "e">>
      [] str = "Townhome" -> <<"T", "o", "w", "n", "h", "o", "m", "e">>
      [] str = "Condominium" -> <<"C", "o", "n", "d", "o", "m", "i", "n", "i", "u", "m">>
      [] str = "Single Family" -> <<"S", "i", "n", "g", "l", "e", " ", "F", "a", "m", "i", "l", "y">>
      [] str = "Villa" -> <<"V", "i", "l", "l", "a">>
      [] str = "3 bd" -> <<"3", " ", "b", "d">>
      [] str = "Condo townhome" -> <<"C", "o", "n", "d", "o", " ", "t", "o", "w", "n", "h", "o", "m", "e">>
      [] str = "Townhouse" -> <<"T", "o", "w", "n", "h", "o", "u", "s", "e">>
      [] str = "House" -> <<"H", "o", "u", "s", "e">>
      [] str = "Austin, TX" -> <<"A", "u", "s", "t", "i", "n", ",", " ", "T", "X">>
      [] str = "Austin" -> <<"A", "u", "s", "t", "i", "n">>
      [] str = "texas" -> <<"t", "e", "x", "a", "s">>
      [] str = "Texas" -> <<"T", "e", "x", "a", "s">>
      [] str = "new-jersey" -> <<"n", "e", "w", "-", "j", "e", "r", "s", "e", "y">>
      [] str = "district-of-columbia" -> <<"d", "i", "s", "t", "r", "i", "c", "t", "-", "o", "f", "-", "c", "o", "l", "u", "m", "b", "i", "a">>
      [] str = "a" -> <<"a">>
      [] str = "-x" -> <<"-", "x">>
      [] str = "TX" -> <<"T", "X">>

LowerCase == <<"a", "b", "c", "d", "e", "f", "g", "h", "i", "j", "k", "l", "m",
               "n", "o", "p", "q", "r", "s", "t", "u", "v", "w", "x", "y", "z">>
UpperCase == <<"A", "B", "C", "D", "E", "F", "G", "H", "I", "J", "K", "L", "M",
               "N", "O", "P", "Q", "R", "S", "T", "U", "V", "W", "X", "Y", "Z">>

IsLower(c) == \E k \in DOMAIN LowerCase : LowerCase[k] = c
IsUpper(c) == \E k \in DOMAIN UpperCase : UpperCase[k] = c

\* str.upper() and str.lower()
StrUpper(text) ==
    [i \in DOMAIN text |->
        IF IsLower(text[i])
        THEN UpperCase[CHOOSE k \in DOMAIN LowerCase : LowerCase[k] = text[i]]
        ELSE text[i]]

StrLower(text) ==
    [i \in DOMAIN text |->
        IF IsUpper(text[i])
        THEN LowerCase[CHOOSE k \in DOMAIN UpperCase : UpperCase[k] = text[i]]
        ELSE text[i]]

\* word in text
Contains(text, word) ==
    \E i \in 1..(Len(text) - Len(word) + 1) : SubSeq(text, i, i + Len(word) - 1) = word

\* the table of LennarScraper._state_slug_to_abbrev
mapping ==
    {[slug |-> <<"a", "l", "a", "b", "a", "m", "a">>, abbrev |-> <<"A", "L">>],
     [slug |-> <<"a", "l", "a", "s", "k", "a">>, abbrev |-> <<"A", "K">>],
     [slug |-> <<"a", "r", "i", "z", "o", "n", "a">>, abbrev |-> <<"A", "Z">>],
     [slug |-> <<"a", "r", "k", "a", "n", "s", "a", "s">>, abbrev |-> <<"A", "R">>],
     [slug |-> <<"c", "a", "l", "i", "f", "o", "r", "n", "i", "a">>, abbrev |-> <<"C", "A">>],
     [slug |-> <<"c", "o", "l", "o", "r", "a", "d", "o">>, abbrev |-> <<"C", "O">>],
     [slug |-> <<"c", "o", "n", "n", "e", "c", "t", "i", "c", "u", "t">>, abbrev |-> <<"C", "T">>],
     [slug |-> <<"d", "e", "l", "a", "w", "a", "r", "e">>, abbrev |-> <<"D", "E">>],
     [slug |-> <<"f", "l", "o", "r", "i", "d", "a">>, abbrev |-> <<"F", "L">>],
     [slug |-> <<"g", "e", "o", "r", "g", "i", "a">>, abbrev |-> <<"G", "A">>],
     [slug |-> <<"h", "a", "w", "a", "i", "i">>, abbrev |-> <<"H", "I">>],
     [slug |-> <<"i", "d", "a", "h", "o">>, abbrev |-> <<"I", "D">>],
     [slug |-> <<"i", "l", "l", "i", "n", "o", "i", "s">>, abbrev |-> <<"I", "L">>],
     [slug |-> <<"i", "n", "d", "i", "a", "n", "a">>, abbrev |-> <<"I", "N">>],
     [slug |-> <<"i", "o", "w", "a">>, abbrev |-> <<"I", "A">>],
     [slug |-> <<"k", "a", "n", "s", "a", "s">>, abbrev |-> <<"K", "S">>],
     [slug |-> <<"k", "e", "n", "t", "u", "c", "k", "y">>, abbrev |-> <<"K", "Y">>],
     [slug |-> <<"l", "o", "u", "i", "s", "i", "a", "n", "a">>, abbrev |-> <<"L", "A">>],
     [slug |-> <<"m", "a", "i", "n", "e">>, abbrev |-> <<"M", "E">>],
     [slug |-> <<"m", "a", "r", "y", "l", "a", "n", "d">>, abbrev |-> <<"M", "D">>],
     [slug |-> <<"m", "a", "s", "s", "a", "c", "h", "u", "s", "e", "t", "t", "s">>, abbrev |-> <<"M", "A">>],
     [slug |-> <<"m", "i", "c", "h", "i", "g", "a", "n">>, abbrev |-> <<"M", "I">>],
     [slug |-> <<"m", "i", "n", "n", "e", "s", "o", "t", "a">>, abbrev |-> <<"M", "N">>],
     [slug |-> <<"m", "i", "s", "s", "i", "s", "s", "i", "p", "p", "i">>, abbrev |-> <<"M", "S">>],
     [slug |-> <<"m", "i", "s", "s", "o", "u", "r", "i">>, abbrev |-> <<"M", "O">>],
     [slug |-> <<"m", "o", "n", "t", "a", "n", "a">>, abbrev |-> <<"M", "T">>],
     [slug |-> <<"n", "e", "b", "r", "a", "s", "k", "a">>, abbrev |-> <<"N", "E">>],
     [slug |-> <<"n", "e", "v", "a", "d", "a">>, abbrev |-> <<"N", "V">>],
     [slug |-> <<"n", "e", "w", "-", "h", "a", "m", "p", "s", "h", "i", "r", "e">>, abbrev |-> <<"N", "H">>],
     [slug |-> <<"n", "e", "w", "-", "j", "e", "r", "s", "e", "y">>, abbrev |-> <<"N", "J">>],
     [slug |-> <<"n", "e", "w", "-", "m", "e", "x", "i", "c", "o">>, abbrev |-> <<"N", "M">>],
     [slug |-> <<"n", "e", "w", "-", "y", "o", "r", "k">>, abbrev |-> <<"N", "Y">>],
     [slug |-> <<"n", "o", "r", "t", "h", "-", "c", "a", "r", "o", "l", "i", "n", "a">>, abbrev |-> <<"N", "C">>],
     [slug |-> <<"n", "o", "r", "t", "h", "-", "d", "a", "k", "o", "t", "a">>, abbrev |-> <<"N", "D">>],
     [slug |-> <<"o", "h", "i", "o">>, abbrev |-> <<"O", "H">>],
     [slug |-> <<"o", "k", "l", "a", "h", "o", "m", "a">>, abbrev |-> <<"O", "K">>],
     [slug |-> <<"o", "r", "e", "g", "o", "n">>, abbrev |-> <<"O", "R">>],
     [slug |-> <<"p", "e", "n", "n", "s", "y", "l", "v", "a", "n", "i", "a">>, abbrev |-> <<"P", "A">>],
     [slug |-> <<"r", "h", "o", "d", "e", "-", "i", "s", "l", "a", "n", "d">>, abbrev |-> <<"R", "I">>],
     [slug |-> <<"s", "o", "u", "t", "h", "-", "c", "a", "r", "o", "l", "i", "n", "a">>, abbrev |-> <<"S", "C">>],
     [slug |-> <<"s", "o", "u", "t", "h", "-", "d", "a", "k", "o", "t", "a">>, abbrev |-> <<"S", "D">>],
     [slug |-> <<"t", "e", "n", "n", "e", "s", "s", "e", "e">>, abbrev |-> <<"T", "N">>],
     [slug |-> <<"t", "e", "x", "a", "s">>, abbrev |-> <<"T", "X">>],
     [slug |-> <<"u", "t", "a", "h">>, abbrev |-> <<"U", "T">>],
     [slug |-> <<"v", "e", "r", "m", "o", "n", "t">>, abbrev |-> <<"V", "T">>],
     [slug |-> <<"v", "i", "r", "g", "i", "n", "i", "a">>, abbrev |-> <<"V", "A">>],
     [slug |-> <<"w", "a", "s", "h", "i", "n", "g", "t", "o", "n">>, abbrev |-> <<"W", "A">>],
     [slug |-> <<"w", "e", "s", "t", "-", "v", "i", "r", "g", "i", "n", "i", "a">>, abbrev |-> <<"W", "V">>],
     [slug |-> <<"w", "i", "s", "c", "o", "n", "s", "i", "n">>, abbrev |-> <<"W", "I">>],
     [slug |-> <<"w", "y", "o", "m", "i", "n", "g">>, abbrev |-> <<"W", "Y">>]}

\* LennarScraper._state_slug_to_abbrev: mapping.get(slug.lower(), slug.upper()[:2])
StateSlugToAbbrev(slug) ==
    IF \E e \in mapping : e.slug = StrLower(slug)
    THEN (CHOOSE e \in mapping : e.slug = StrLower(slug)).abbrev
    ELSE SubSeq(StrUpper(slug), 1, IF Len(slug) < 2 THEN Len(slug) ELSE 2)

\* a character of \w, for the \b of a pattern
IsWordChar(c) == IsLower(c) \/ IsUpper(c) \/ IsDigit(c) \/ c = "_"

\* re.search(r'\b([A-Z]{2})\b', location_text) matches at position i
StateMatchAt(location_text, i) ==
    /\ i + 1 <= Len(location_text)
    /\ IsUpper(location_text[i]) /\ IsUpper(location_text[i + 1])
    /\ i = 1 \/ ~IsWordChar(location_text[i - 1])
    /\ i + 1 = Len(location_text) \/ ~IsWordChar(location_text[i + 2])

\* LennarScraper._parse_location: of the tuple it returns, the state
ParseLocation(location_text, state_hint) ==
    LET at == {i \in DOMAIN location_text : StateMatchAt(location_text, i)}
        first == CHOOSE i \in at : \A j \in at : i <= j
    IN  IF at # {} THEN SubSeq(location_text, first, first + 1)
        ELSE IF state_hint # << >> THEN StateSlugToAbbrev(state_hint)
        ELSE << >>

\* the text of the location element of a community page, and community['state']
LocationTexts == {Word(""), Word("Austin, TX"), Word("Austin")}
StateHints ==
    {Word(""), Word("texas"), Word("Texas"), Word("new-jersey"),
     Word("district-of-columbia"), Word("a"), Word("-x")}

\* the house type of LennarScraper._parse_home_card
LennarHouseType(type_elem, card_text) ==
    LET lowered == StrLower(card_text)
    IN  IF type_elem.found THEN type_elem.text
        ELSE IF Contains(lowered, Word("townhome")) \/ Contains(lowered, Word("townhouse"))
        THEN Word("Townhome")
        ELSE IF Contains(lowered, Word("condo")) THEN Word("Condominium")
        ELSE IF Contains(lowered, Word("single family"))
                \/ Contains(lowered, Word("single-family"))
        THEN Word("Single Family")
        ELSE Word("Single Family")

\* the house type of ZillowLennarScraper._parse_details
ParseDetails(details_text) ==
    LET lowered == StrLower(details_text)
    IN  IF Contains(lowered, Word("condo")) THEN Word("Condominium")
        ELSE IF Contains(lowered, Word("townhouse")) \/ Contains(lowered, Word("townhome"))
        THEN Word("Townhome")
        ELSE IF Contains(lowered, Word("house")) \/ Contains(lowered, Word("single family"))
        THEN Word("Single Family")
        ELSE << >>

\* the element of the house type, and the text of a card or of its details
TypeElems == {NoElem, Elem(Word("Villa"))}
CardTexts == {Word("3 bd"), Word("Condo townhome"), Word("Townhouse"), Word("House")}
DetailsElems == {NoElem} \cup {Elem(t) : t \in CardTexts}

\* the cards of a Lennar page
NameElems == {NoElem, Elem(<< >>), Elem(<<"A", "s", "p", "e", "n">>)}
PriceElems ==
    {NoElem, Elem(<< >>), Elem(<<"C", "a", "l", "l">>), Elem(<<"$", "5", ",", "0">>)}
NumberElems == {NoElem, Elem(<<"B", "e", "d", "s">>), Elem(<<"3", " ", "B", "e", "d", "s">>)}
BedMatches == {NoMatch, Match(<<"4">>)}
BathMatches == {NoMatch, Match(<<"2", ".", "5">>)}
SqftMatches == {NoMatch, Match(<<"1", ",", "8", "5", "0">>)}

LennarCards ==
    [name_elem : NameElems, price_elem : PriceElems,
     bed_elem : NumberElems, bed_match : BedMatches,
     bath_elem : {NoElem}, bath_match : BathMatches,
     sqft_elem : {NoElem, Elem(<<"S", "q", "f", "t">>)}, sqft_match : SqftMatches,
     type_elem : TypeElems, card_text : CardTexts,
     bad_href : BOOLEAN]

\* the community names a card is parsed under: get_listings_from_community hands
\* in the name of the community, search_homes ""
CommunityNames == {<< >>, <<"O", "a", "k">>}
Contexts == {"community", "search"}

NoListing == [emitted |-> FALSE]

\* a field of a card read with a selector, else with a regular expression
\* over the card's text, else left at its default ""
SelectorElseRegex(elem, match) ==
    IF elem.found THEN ExtractNumber(elem.text)
    ELSE IF match.matched THEN match.group
    ELSE << >>

\* LennarScraper._parse_home_card; urljoin raising on the card's href is caught
\* by except Exception, and None is returned
ParseHomeCard(card, community_name) ==
    LET plan_name == IF card.name_elem.found THEN card.name_elem.text ELSE << >>
        price == IF card.price_elem.found THEN card.price_elem.text ELSE << >>
        price_numeric == IF card.price_elem.found THEN ParsePrice(card.price_elem.text)
                         ELSE NoneInt
    IN  IF card.bad_href THEN NoListing
        ELSE IF plan_name # << >> \/ price # << >> \/ community_name # << >>
        THEN [emitted |-> TRUE,
              community_name |-> community_name,
              plan_name |-> plan_name,
              address |-> << >>,
              price |-> price,
              price_numeric |-> price_numeric,
              house_type |-> LennarHouseType(card.type_elem, card.card_text),
              bedrooms |-> SelectorElseRegex(card.bed_elem, card.bed_match),
              bathrooms |-> SelectorElseRegex(card.bath_elem, card.bath_match),
              sqft |-> IF card.sqft_elem.found THEN ExtractNumber(card.sqft_elem.text)
                       ELSE IF card.sqft_match.matched
                       THEN RemoveCommas(card.sqft_match.group)
                       ELSE << >>]
        ELSE NoListing

\* the cards of a Zillow page
AddrElems == {NoElem, Elem(<< >>), Elem(<<"1", " ", "E", "l", "m">>)}
ZillowCards ==
    [addr_elem : AddrElems, price_elem : PriceElems, details_elem : DetailsElems,
     bad_href : BOOLEAN]

\* ZillowLennarScraper._parse_zillow_card
ParseZillowCard(card) ==
    LET address == IF card.addr_elem.found THEN card.addr_elem.text ELSE << >>
        price == IF card.price_elem.found THEN card.price_elem.text ELSE << >>
        price_numeric == IF card.price_elem.found THEN ExtractPrice(card.price_elem.text)
                         ELSE NoneInt
    IN  IF card.bad_href THEN NoListing
        ELSE IF address # << >>
        THEN [emitted |-> TRUE, community_name |-> << >>, plan_name |-> << >>,
              address |-> address, price |-> price, price_numeric |-> price_numeric,
              house_type |-> IF card.details_elem.found
                             THEN ParseDetails(card.details_elem.text)
                             ELSE << >>,
              bedrooms |-> << >>, bathrooms |-> << >>, sqft |-> << >>]
        ELSE NoListing

\* an entry of listResults: a key is missing, or has a value
Missing == [has |-> FALSE, text |-> << >>, v |-> 0]
Str(text) == [has |-> TRUE, text |-> text, v |-> 0]
Num(v) == [has |-> TRUE, text |-> << >>, v |-> v]

ScriptResults ==
    [address : {Missing, Str(<<"1", " ", "E", "l", "m">>)},
     addressState : {Missing, Str(Word("TX")), Str(Word("Texas"))},
     price : {Missing, Str(<< >>), Str(<<"C", "a", "l", "l">>), Str(<<"$", "5", ",", "0">>)},
     unformattedPrice : {Missing, Num(450000)},
     builderName : {Missing, Str(<<"l", "e", "n", "n", "a", "r">>), Str(<<"k", "b">>)}]

Get(entry, default) == IF entry.has THEN entry.text ELSE default

\* one iteration of for result in results, ZillowLennarScraper._parse_script_listings;
\* of the builder names of the model, "lennar" alone contains 'lennar'
ParseScriptListing(result, builder_filter) ==
    LET address == Get(result.address, << >>)
        price_str == Get(result.price, << >>)
        unformatted == IF result.unformattedPrice.has THEN result.unformattedPrice.v ELSE 0
        builder_name == Get(result.builderName, << >>)
    IN  IF builder_filter /\ builder_name # <<"l", "e", "n", "n", "a", "r">> THEN NoListing
        ELSE IF address = << >> THEN NoListing
        ELSE [emitted |-> TRUE, community_name |-> << >>, plan_name |-> << >>,
              address |-> address,
              state |-> Get(result.addressState, << >>),
              price |-> IF price_str # << >> THEN price_str ELSE FormatPrice(unformatted),
              price_numeric |-> IF price_str # << >> THEN ExtractPrice(price_str)
                                ELSE SomeInt(unformatted),
              bedrooms |-> << >>, bathrooms |-> << >>, sqft |-> << >>]

NothingParsed == [kind |-> "none"]

\* a call of _parse_price (Lennar) or _extract_price (Zillow)
ParsePriceCall ==
    /\ parsed = NothingParsed
    /\ \E site \in Sites, price_text \in Texts :
         parsed' = [kind |-> "price", site |-> site, price_text |-> price_text,
                    result |-> IF site = "lennar" THEN ParsePrice(price_text)
                               ELSE ExtractPrice(price_text)]
    /\ UNCHANGED <<fetchVars, pg, crawl, listingVars, merge, run, walk, ops>>

\* city, state, zip_code = self._parse_location(location_text, community.get('state', ''))
LennarParseLocation ==
    /\ parsed = NothingParsed
    /\ \E location_text \in LocationTexts, state_hint \in StateHints :
         parsed' = [kind |-> "location", site |-> "lennar",
                    location_text |-> location_text, state_hint |-> state_hint,
                    state |-> ParseLocation(location_text, state_hint)]
    /\ UNCHANGED <<fetchVars, pg, crawl, listingVars, merge, run, walk, ops>>

\* listing = self._parse_home_card(card, community_name, city, state, zip_code)
LennarParseHomeCard ==
    /\ parsed = NothingParsed
    /\ \E context \in Contexts, community_name \in CommunityNames, card \in LennarCards :
         /\ context = "search" => community_name = << >>
         /\ parsed' = [kind |-> "card", site |-> "lennar", context |-> context,
                       community_name |-> community_name, card |-> card,
                       listing |-> ParseHomeCard(card, community_name)]
    /\ UNCHANGED <<fetchVars, pg, crawl, listingVars, merge, run, walk, ops>>

\* listing = self._parse_zillow_card(card)
ZillowParseCard ==
    /\ parsed = NothingParsed
    /\ \E context \in {"search", "profile"}, card \in ZillowCards :
         parsed' = [kind |-> "card", site |-> "zillow", context |-> context,
                    community_name |-> << >>, card |-> card,
                    listing |-> ParseZillowCard(card)]
    /\ UNCHANGED <<fetchVars, pg, crawl, listingVars, merge, run, walk, ops>>

\* one result of the script data
ZillowParseScriptListing ==
    /\ parsed = NothingParsed
    /\ \E result \in ScriptResults, builder_filter \in BOOLEAN :
         parsed' = [kind |-> "script", site |-> "zillow", result |-> result,
                    builder_filter |-> builder_filter,
                    listing |-> ParseScriptListing(result, builder_filter)]
    /\ UNCHANGED <<fetchVars, pg, crawl, listingVars, merge, run, walk, ops>>

\* if listing: listings.append(listing)
TakeListing ==
    /\ parsed # NothingParsed
    /\ parsed' = NothingParsed
    /\ UNCHANGED <<fetchVars, pg, crawl, listingVars, merge, run, walk, ops>>

ParseNext ==
    \/ ParsePriceCall
    \/ LennarParseLocation
    \/ LennarParseHomeCard
    \/ ZillowParseCard
    \/ ZillowParseScriptListing
    \/ TakeListing

(***************************************************************************)
(* The links of the pages: LennarScraper.scrape_all_listings followed over *)
(* what the documents link to.                                             *)
(*                                                                         *)
(* A link to a state is the slug of its href and whether the href ends in  *)
(* "/" (the pattern of get_states accepts both); urljoin keeps the href as *)
(* it is, so the url of a state entry is its link.  A link to a metro area *)
(* or to a community is its url.  The documents are the environment: the   *)
(* links of a page are drawn when it is fetched, and a fetch that gave     *)
(* None is a page without links.  What a failing node does to the crawl is *)
(* followed in SpecCrawl.  walk.visits lists the requests made, in order;  *)
(* walk.last holds the links of the last page read.                        *)
(***************************************************************************)
Slugs == {"texas", "utah"}
MetroUrls == {"austin"}
CommunityUrls == {"oak", "elm"}

StateLinks == [slug : Slugs, slash : BOOLEAN]

LinkSeqs(S, n) == UNION {SeqsOf(S, k) : k \in 0..n}

\* max_communities: None, or a number
MaxCommunities == {NoneInt, SomeInt(0), SomeInt(1)}

\* the card-discovery queries of get_listings_from_community: the cards that
\* home_cards holds, and the section that holds the card again, if any
Discoveries == [home_cards : LinkSeqs({1}, 1), section : {"none", "plan", "qmi"}]

\* get_states, the loop over state_links
StateEntries(state_links) ==
    [k \in DOMAIN state_links |-> [slug |-> state_links[k].slug, url |-> state_links[k]]]

\* get_states, # Remove duplicates
RECURSIVE UniqueStates(_, _)
UniqueStates(states, seen) ==
    IF states = << >> THEN << >>
    ELSE IF Head(states).slug \in seen THEN UniqueStates(Tail(states), seen)
    ELSE <<Head(states)>> \o UniqueStates(Tail(states), seen \cup {Head(states).slug})

\* the entries get_communities_in_state appends for the links of one document
CommunityEntries(links, state_slug) ==
    [k \in DOMAIN links |-> [url |-> links[k], state |-> state_slug]]

\* the dedupe of get_communities_in_state that keeps every entry
UniqueCommunitiesKeepAll(communities, seen_urls) == communities

\* get_communities_in_state, # Remove duplicates
RECURSIVE UniqueCommunities(_, _)
UniqueCommunities(communities, seen_urls) ==
    IF communities = << >> THEN << >>
    ELSE IF Head(communities).url \in seen_urls
    THEN UniqueCommunities(Tail(communities), seen_urls)
    ELSE <<Head(communities)>>
         \o UniqueCommunities(Tail(communities), seen_urls \cup {Head(communities).url})

\* the communities of the metro pages, each fetched as often as it is linked
RECURSIVE MetroCommunities(_, _, _)
MetroCommunities(metro_links, metro_page, state_slug) ==
    IF metro_links = << >> THEN << >>
    ELSE CommunityEntries(metro_page, state_slug)
         \o MetroCommunities(Tail(metro_links), metro_page, state_slug)

\* communities[:max_communities]
Slice(communities, n) == SubSeq(communities, 1, IF n < Len(communities) THEN n ELSE Len(communities))

\* the slice of scrape_all_listings that takes no notice of max_communities
TruncateNever(communities, max_communities) == communities

\* if max_communities: communities = communities[:max_communities]
Truncate(communities, max_communities) ==
    IF max_communities.some /\ max_communities.v # 0
    THEN Slice(communities, max_communities.v)
    ELSE communities

\* the listings get_listings_from_community appends: those of home_cards, then
\* those of the floor-plan sections, then those of the quick-move-in sections
ListingOfCard(community, card, status) ==
    [community |-> community.url, state |-> community.state, card |-> card, status |-> status]

ListingsOfCommunity(community, found) ==
    [k \in DOMAIN found.home_cards |-> ListingOfCard(community, found.home_cards[k], "")]
    \o (IF found.section = "plan" THEN <<ListingOfCard(community, 1, "")>> ELSE << >>)
    \o (IF found.section = "qmi" THEN <<ListingOfCard(community, 1, "Move-In Ready")>>
        ELSE << >>)

\* a request for the page url, made for the state parent ("" for the root's)
Request(level, url, parent) == [level |-> level, url |-> url, parent |-> parent]

RequestsOf(level, urls, parent) ==
    [k \in DOMAIN urls |-> Request(level, urls[k], parent)]

\* the extend of scrape_all_listings with the listings put in front
ExtendInFront(all_listings, listings) == listings \o all_listings

\* all_listings.extend(listings)
Extend(all_listings, listings) == all_listings \o listings

NoWalk ==
    [pc |-> "idle", max_communities |-> NoneInt, available_states |-> << >>, i |-> 0,
     communities |-> << >>, j |-> 0, visits |-> << >>, all_listings |-> << >>,
     last |-> [level |-> "none"]]

\* scrape_all_listings up to its loop: available_states = self.get_states()
WalkStart ==
    /\ walk.pc = "idle"
    /\ \E state_links \in LinkSeqs(StateLinks, MaxLinks), max_communities \in MaxCommunities :
         walk' = [walk EXCEPT
                    !.pc = "states",
                    !.max_communities = max_communities,
                    !.available_states = UniqueStates(StateEntries(state_links), {}),
                    !.visits = <<Request("root", "new-homes", "")>>,
                    !.last = [level |-> "root", state_links |-> state_links]]
    /\ UNCHANGED <<fetchVars, pg, crawl, listingVars, merge, parsed, run, ops>>

\* for state in available_states: communities = self.get_communities_in_state(...);
\* if max_communities: communities = communities[:max_communities]
WalkState ==
    /\ walk.pc = "states"
    /\ walk.i < Len(walk.available_states)
    /\ \E links \in LinkSeqs(CommunityUrls, MaxLinks), metro_links \in LinkSeqs(MetroUrls, MaxLinks),
          metro_page \in LinkSeqs(CommunityUrls, 1), parse \in Parses :
         LET state == walk.available_states[walk.i + 1]
             found == CommunityEntries(links, state.slug)
                      \o MetroCommunities(metro_links, metro_page, state.slug)
             unique == UniqueCommunities(found, {})
             communities == Truncate(unique, walk.max_communities)
         IN  /\ metro_links = << >> => metro_page = << >>
             /\ parse = "raises" => (links = << >> /\ metro_links = << >>)
             /\ walk' = [walk EXCEPT
                    !.i = @ + 1,
                    !.j = 0,
                    !.pc = IF parse = "raises" THEN "raised"
                           ELSE IF communities = << >> THEN "states"
                           ELSE "communities",
                    !.communities = IF parse = "raises" THEN << >> ELSE communities,
                    !.visits = @ \o <<Request("state", state.slug, "")>>
                                 \o RequestsOf("metro", metro_links, state.slug),
                    !.last = [level |-> "state", links |-> links,
                              metro_links |-> metro_links, metro_page |-> metro_page,
                              found |-> found, unique |-> unique, parse |-> parse]]
    /\ UNCHANGED <<fetchVars, pg, crawl, listingVars, merge, parsed, run, ops>>

\* for community in communities: listings = self.get_listings_from_community(community);
\* all_listings.extend(listings)
WalkCommunity ==
    /\ walk.pc = "communities"
    /\ walk.j < Len(walk.communities)
    /\ \E found \in Discoveries :
         LET community == walk.communities[walk.j + 1]
         IN  /\ found.home_cards = << >> => found.section = "none"
             /\ walk' = [walk EXCEPT
                    !.j = @ + 1,
                    !.pc = IF walk.j + 1 = Len(walk.communities) THEN "states"
                           ELSE "communities",
                    !.visits = @ \o <<Request("community", community.url, community.state)>>,
                    !.all_listings = Extend(@, ListingsOfCommunity(community, found)),
                    !.last = [level |-> "community", found |-> found]]
    /\ UNCHANGED <<fetchVars, pg, crawl, listingVars, merge, parsed, run, ops>>

\* self.listings = all_listings; return all_listings
WalkFinish ==
    /\ walk.pc = "states"
    /\ walk.i = Len(walk.available_states)
    /\ walk' = [walk EXCEPT !.pc = "done"]
    /\ lennar_listings' = walk.all_listings
    /\ UNCHANGED <<fetchVars, pg, crawl, zillow_listings, merge, parsed, run, ops>>

WalkNext ==
    \/ WalkStart
    \/ WalkState
    \/ WalkCommunity
    \/ WalkFinish

(***************************************************************************)
(* The Zillow scraper as its callers use it: scrape_lennar_profile and     *)
(* scrape_multiple_locations called one after the other on one scraper, as *)
(* main of zillow_lennar_scraper.py does with --profile and --locations.   *)
(* zillow_listings is self.listings; ops lists the calls made, each with   *)
(* what its pages gave.                                                    *)
(***************************************************************************)
LocationArgs ==
    {<< >>, <<"Dallas, TX">>, <<"Dallas, TX", "Austin, TX">>}

\* what a fetch of the scraper hands back: a response or page, None or "", or
\* the exception of _setup_selenium
ZillowFetches == {"Response", "None", "SetupError"}

\* scrape_multiple_locations keeping what self.listings held
SetListingsExtended(listings, all_listings) == listings \o all_listings

\* self.listings = all_listings
SetListings(listings, all_listings) == all_listings

\* all_listings after the loop of scrape_multiple_locations: the listings of
\* the locations that did not raise, in the order of the locations
RECURSIVE Gathered(_, _)
Gathered(results, l) ==
    IF l > Len(results) THEN << >>
    ELSE (IF results[l].raised THEN << >> ELSE results[l].yielded) \o Gathered(results, l + 1)

\* a call of scrape_lennar_profile: self.listings.extend(listings), unless it
\* raised or returned before
ZillowProfileCall ==
    /\ Len(ops) < MaxOps
    /\ \E fetched \in ZillowFetches, parse \in Parses :
         LET out == ScrapeLennarProfile(fetched, parse)
         IN  /\ fetched \in {"None", "SetupError"} => parse = "ok"
             /\ zillow_listings' =
                    IF out.raised \/ fetched = "None" THEN zillow_listings
                    ELSE zillow_listings \o out.yielded
             /\ ops' = Append(ops, [op |-> "profile", raised |-> out.raised,
                                    results |-> <<out>>])
    /\ UNCHANGED <<fetchVars, pg, crawl, lennar_listings, merge, parsed, run, walk>>

\* a call of scrape_multiple_locations
ZillowLocationsCall ==
    /\ Len(ops) < MaxOps
    /\ \E locations \in LocationArgs :
         \E got \in [DOMAIN locations -> ZillowFetches \X Parses] :
            LET results == [l \in DOMAIN locations |->
                               SearchZillowNewConstruction(got[l][1], got[l][2], l)]
            IN  /\ \A l \in DOMAIN locations :
                      got[l][1] \in {"None", "SetupError"} => got[l][2] = "ok"
                /\ zillow_listings' = SetListings(zillow_listings, Gathered(results, 1))
                /\ ops' = Append(ops, [op |-> "locations", raised |-> FALSE,
                                       results |-> results])
    /\ UNCHANGED <<fetchVars, pg, crawl, lennar_listings, merge, parsed, run, walk>>

ZillowOpsNext ==
    \/ ZillowProfileCall
    \/ ZillowLocationsCall

(***************************************************************************)
(* A run of scrape.py main.                                                *)
(*                                                                         *)
(* run.source is the selection of the arguments (no selection is "both").  *)
(* run.created holds the scrapers that scrape_lennar_direct and            *)
(* scrape_zillow have constructed, run.held those that main's variables    *)
(* lennar_scraper and zillow_scraper hold, run.closed those whose close()  *)
(* has been called.  run.status says of each source whether its scrape has *)
(* not begun ("no"), is going on ("scraping"), has returned, has raised an *)
(* exception or was interrupted by KeyboardInterrupt.                      *)
(***************************************************************************)
Selections == {"lennar", "zillow", "both"}

NoRun ==
    [pc |-> "args", source |-> "both", created |-> {}, held |-> {}, closed |-> {},
     status |-> [site \in Sites |-> "no"], merges |-> 0, exported |-> "none",
     exit |-> "running"]

\* the listings a scrape leaves in its scraper
ScrapedLennar == {<< >>} \cup {<< listing >> : listing \in LennarListings}
ScrapedZillow == {<< >>} \cup {<< listing >> : listing \in ZillowListings}

\* main goes from the Lennar block straight to the output
AfterLennarNoJoin(source, raised) ==
    IF raised /\ source # "both" THEN "failed"
    ELSE IF source = "both" THEN "output" ELSE "zillow_block"

\* where main goes after the Lennar block: except Exception: if not args.both: raise
AfterLennar(source, raised) ==
    IF raised /\ source # "both" THEN "failed" ELSE "zillow_block"

\* where main goes after the Zillow block
AfterZillow(source, raised) ==
    IF raised /\ source # "both" THEN "failed" ELSE "output"

\* if lennar_scraper and lennar_scraper.listings: the listings combine_results reads
ListingsOf(site, listings) == IF site \in run.held THEN listings ELSE << >>

\* args = parser.parse_args(); no source selected is both
ParseArgs ==
    /\ run.pc = "args"
    /\ \E source \in Selections :
         run' = [run EXCEPT !.pc = "lennar_block", !.source = source]
    /\ UNCHANGED <<fetchVars, pg, crawl, listingVars, merge, parsed, walk, ops>>

\* if args.source == 'lennar' or args.both: does not hold
LennarNotSelected ==
    /\ run.pc = "lennar_block"
    /\ run.source = "zillow"
    /\ run' = [run EXCEPT !.pc = "zillow_block"]
    /\ UNCHANGED <<fetchVars, pg, crawl, listingVars, merge, parsed, walk, ops>>

\* scrape_lennar_direct: scraper = LennarScraper(...)
LennarScraperCreated ==
    /\ run.pc = "lennar_block"
    /\ run.source \in {"lennar", "both"}
    /\ run' = [run EXCEPT !.pc = "lennar_scraping",
                          !.created = @ \cup {"lennar"},
                          !.status["lennar"] = "scraping"]
    /\ UNCHANGED <<fetchVars, pg, crawl, listingVars, merge, parsed, walk, ops>>

\* scraper.scrape_all_listings(...) returns; return scraper; lennar_scraper = ...
LennarScrapeReturns ==
    /\ run.pc = "lennar_scraping"
    /\ \E listings \in ScrapedLennar : lennar_listings' = listings
    /\ run' = [run EXCEPT !.pc = AfterLennar(run.source, FALSE),
                          !.held = @ \cup {"lennar"},
                          !.status["lennar"] = "returned"]
    /\ UNCHANGED <<fetchVars, pg, crawl, zillow_listings, merge, parsed, walk, ops>>

\* scraper.scrape_all_listings(...) raises: scrape_lennar_direct logs and raises
\* again, lennar_scraper stays None; main logs, and raises again unless args.both
LennarScrapeRaises ==
    /\ run.pc = "lennar_scraping"
    /\ run' = [run EXCEPT !.pc = AfterLennar(run.source, TRUE),
                          !.status["lennar"] = "raised"]
    /\ UNCHANGED <<fetchVars, pg, crawl, listingVars, merge, parsed, walk, ops>>

\* if args.source == 'zillow' or args.both: does not hold
ZillowNotSelected ==
    /\ run.pc = "zillow_block"
    /\ run.source = "lennar"
    /\ run' = [run EXCEPT !.pc = "output"]
    /\ UNCHANGED <<fetchVars, pg, crawl, listingVars, merge, parsed, walk, ops>>

\* scrape_zillow: scraper = ZillowLennarScraper(...)
ZillowScraperCreated ==
    /\ run.pc = "zillow_block"
    /\ run.source \in {"zillow", "both"}
    /\ run' = [run EXCEPT !.pc = "zillow_scraping",
                          !.created = @ \cup {"zillow"},
                          !.status["zillow"] = "scraping"]
    /\ UNCHANGED <<fetchVars, pg, crawl, listingVars, merge, parsed, walk, ops>>

\* scraper.scrape_multiple_locations(...) returns; return scraper; zillow_scraper = ...
ZillowScrapeReturns ==
    /\ run.pc = "zillow_scraping"
    /\ \E listings \in ScrapedZillow : zillow_listings' = listings
    /\ run' = [run EXCEPT !.pc = AfterZillow(run.source, FALSE),
                          !.held = @ \cup {"zillow"},
                          !.status["zillow"] = "returned"]
    /\ UNCHANGED <<fetchVars, pg, crawl, lennar_listings, merge, parsed, walk, ops>>

\* scrape_zillow raises: zillow_scraper stays None
ZillowScrapeRaises ==
    /\ run.pc = "zillow_scraping"
    /\ run' = [run EXCEPT !.pc = AfterZillow(run.source, TRUE),
                          !.status["zillow"] = "raised"]
    /\ UNCHANGED <<fetchVars, pg, crawl, listingVars, merge, parsed, walk, ops>>

\* KeyboardInterrupt during a scrape: no except Exception catches it;
\* except KeyboardInterrupt: sys.exit(1)
ScrapeInterrupted ==
    /\ run.pc \in {"lennar_scraping", "zillow_scraping"}
    /\ \E site \in Sites :
         /\ run.status[site] = "scraping"
         /\ run' = [run EXCEPT !.pc = "interrupted", !.status[site] = "interrupted"]
    /\ UNCHANGED <<fetchVars, pg, crawl, listingVars, merge, parsed, walk, ops>>

\* if args.both: listings = combine_results(lennar_scraper, zillow_scraper);
\* export_combined(...)
CombineAndExport ==
    /\ run.pc = "output"
    /\ run.source = "both"
    /\ merge' = [pc |-> "combined",
                 combined |-> combine_results(ListingsOf("lennar", lennar_listings),
                                              ListingsOf("zillow", zillow_listings))]
    /\ run' = [run EXCEPT !.pc = "finally", !.merges = @ + 1, !.exported = "combined",
                          !.exit = "normal"]
    /\ UNCHANGED <<fetchVars, pg, crawl, listingVars, parsed, walk, ops>>

\* elif lennar_scraper: ... elif zillow_scraper: ...: the export of the one scraper
ExportOne ==
    /\ run.pc = "output"
    /\ run.source # "both"
    /\ run' = [run EXCEPT !.pc = "finally",
                          !.exported = IF "lennar" \in run.held THEN "lennar"
                                       ELSE IF "zillow" \in run.held THEN "zillow"
                                       ELSE "nothing",
                          !.exit = "normal"]
    /\ UNCHANGED <<fetchVars, pg, crawl, listingVars, merge, parsed, walk, ops>>

\* except Exception: logger.error(...); sys.exit(1), and except KeyboardInterrupt;
\* then finally: if lennar_scraper: lennar_scraper.close();
\* if zillow_scraper: zillow_scraper.close()
Finally ==
    /\ run.pc \in {"finally", "failed", "interrupted"}
    /\ run' = [run EXCEPT !.pc = "exited",
                          !.closed = run.held,
                          !.exit = IF run.pc = "finally" THEN "normal" ELSE "error"]
    /\ UNCHANGED <<fetchVars, pg, crawl, listingVars, merge, parsed, walk, ops>>

MainNext ==
    \/ ParseArgs
    \/ LennarNotSelected
    \/ LennarScraperCreated
    \/ LennarScrapeReturns
    \/ LennarScrapeRaises
    \/ ZillowNotSelected
    \/ ZillowScraperCreated
    \/ ZillowScrapeReturns
    \/ ZillowScrapeRaises
    \/ ScrapeInterrupted
    \/ CombineAndExport
    \/ ExportOne
    \/ Finally

(***************************************************************************)
(* The specifications.                                                     *)
(***************************************************************************)
FetchIdle ==
    /\ session_ua = 0
    /\ last_call = NoCall

PageIdle == pg = NoPage

CrawlIdle == crawl = NoCrawl

NoListings ==
    /\ lennar_listings = << >>
    /\ zillow_listings = << >>

Init ==
    /\ FetchIdle
    /\ PageIdle
    /\ CrawlIdle
    /\ NoListings
    /\ merge = NotMerged
    /\ parsed = NothingParsed
    /\ run = NoRun
    /\ walk = NoWalk
    /\ ops = << >>

FetchNext ==
    \/ LennarMakeRequest
    \/ ZillowMakeRequest
    \/ ConsumeResponse

SpecFetch == Init /\ [][FetchNext]_vars

SpecPage == Init /\ [][PageNext]_vars

SpecCrawl == Init /\ [][CrawlNext]_vars

SpecMerge == Init /\ [][MergeNext]_vars

SpecParse == Init /\ [][ParseNext]_vars

SpecMain == Init /\ [][MainNext]_vars

SpecWalk == Init /\ [][WalkNext]_vars

SpecZillow == Init /\ [][ZillowOpsNext]_vars

(***************************************************************************)
(* Reading a call's trace.                                                 *)
(***************************************************************************)
Transient == {"timeout", "http429", "http503"}
Permanent == {"http404", "badurl"}

IsRequest(e) == e.ev = "request"
IsSleep(e) == e.ev = "sleep"
IsRotate(e) == e.ev = "rotate"

Requests(c) == SelectSeq(c.trace, IsRequest)
Sleeps(c) == SelectSeq(c.trace, IsSleep)
Rotations(c) == SelectSeq(c.trace, IsRotate)

StrictlyIncreasing(evs) == \A i \in 1..(Len(evs) - 1) : evs[i].v < evs[i + 1].v

\* a call as the scrapers make it: GET of a well-formed URL, default retry_count
DefaultCall(c) ==
    /\ c # NoCall
    /\ c.retry_count = DefaultRetry
    /\ c.url = "valid"
    /\ c.method = "GET"

\* the first j answers of the script are transient failures and the next is a success
FailuresThenSuccess(c, j) ==
    /\ \A i \in 1..j : c.script[i] \in Transient
    /\ c.script[j + 1] = "ok"

\* the position in the trace of the request of attempt k
RequestAt(c, k) == CHOOSE i \in DOMAIN c.trace : IsRequest(c.trace[i]) /\ c.trace[i].k = k

\* the request of attempt k >= 1 comes after a draw of a new User-Agent made after
\* the request of attempt k - 1, and is sent with the User-Agent drawn
RetriesRotated(c) ==
    \A k \in 1..(Len(Requests(c)) - 1) :
        \E r \in DOMAIN c.trace :
            /\ IsRotate(c.trace[r])
            /\ RequestAt(c, k - 1) < r
            /\ r < RequestAt(c, k)
            /\ c.trace[RequestAt(c, k)].v = c.trace[r].v
            /\ c.trace[r].v # c.trace[RequestAt(c, k - 1)].v

\* the first request of the call is sent with the User-Agent the session had before
FirstSentAsBefore(c) == Len(Requests(c)) >= 1 => c.trace[RequestAt(c, 0)].v = c.ua0

StructuralFirst(c) ==
    \/ c.method \notin {"GET", "POST"}
    \/ AttemptOutcome(c.url, c.script, 0) \in Permanent

C4_PermanentNotRetried ==
    (last_call # NoCall /\ last_call.retry_count >= 1) =>
        /\ StructuralFirst(last_call) =>
              /\ Len(Requests(last_call)) <= 1
              /\ Len(Sleeps(last_call)) = 0
              /\ last_call.result \in {"None", "ValueError"}
        /\ Len(Requests(last_call)) >= 2 =>
              AttemptOutcome(last_call.url, last_call.script, 0) \in Transient

(***************************************************************************)
(* C5.  The delay slept before the k-th retry is 2^(k-1) seconds (1 s,     *)
(* 2 s, 4 s, ...), and whatever the retry bound no delay exceeds the       *)
(* ceiling the configuration names.                                        *)
(***************************************************************************)
\* the ceilings a configuration may name (spec, 4.1 and 6); the code takes none
ConfigurableCeilings == {1, 2}

C5_BackoffSchedule ==
    last_call # NoCall =>
        \A i \in 1..Len(Sleeps(last_call)) :
            /\ Sleeps(last_call)[i].v = Pow2(i - 1)
            /\ \A ceiling \in ConfigurableCeilings : Sleeps(last_call)[i].v <= ceiling

(***************************************************************************)
(* C6.  As stated: in both fetchers every retry is preceded by a draw of a *)
(* new User-Agent made after the failed attempt, and the first attempt of  *)
(* a call is sent with the User-Agent the session already had.             *)
(***************************************************************************)
C6_RotationBothFetchers ==
    last_call # NoCall =>
        /\ RetriesRotated(last_call)
        /\ FirstSentAsBefore(last_call)

(***************************************************************************)
(* C6, amended.  In both fetchers every retry is preceded by a draw of a   *)
(* new User-Agent made after the failed attempt and is sent with it.  The  *)
(* first attempt of a call is sent with the User-Agent the session already *)
(* had in the Lennar fetcher only; the Zillow fetcher draws a new          *)
(* User-Agent before every attempt, the first one included.                *)
(***************************************************************************)
C6_RotationPerFetcher ==
    last_call # NoCall =>
        /\ RetriesRotated(last_call)
        /\ last_call.site = "lennar" => FirstSentAsBefore(last_call)
        /\ last_call.site = "zillow" =>
              /\ Len(Rotations(last_call)) = Len(Requests(last_call))
              /\ Len(Requests(last_call)) >= 1 =>
                    last_call.trace[RequestAt(last_call, 0)].v = last_call.ua0 + 1

C6_Witness ==
    /\ last_call # NoCall
    /\ last_call.site = "lennar"
    /\ last_call.ua0 >= 1
    /\ Len(Requests(last_call)) = 3
    /\ Len(Rotations(last_call)) = 2

(***************************************************************************)
(* Reading a page load.                                                    *)
(***************************************************************************)
\* the source grows on each of the first g triggers and on none after them
StopsGrowingAfter(source, g) ==
    \A t \in 1..(MaxScrolls + 1) : Grows(source, t) <=> (t <= g)

(***************************************************************************)
(* C7.  For a content source whose height stops growing after 3 trigger    *)
(* actions, the scroll loop of either scraper issues exactly 3 trigger     *)
(* actions and then ends normally.                                         *)
(***************************************************************************)
C7_ThreeTriggersThenStable ==
    (pg.pc = "stable" /\ StopsGrowingAfter(pg.source, 3)) => pg.triggers = 3

(***************************************************************************)
(* C8.  The Lennar scroll loop ends normally only after the height has     *)
(* been read unchanged on two consecutive triggers: a trigger that shows   *)
(* no growth, followed by one that would show growth, does not end it.     *)
(***************************************************************************)
C8_TwoUnchangedReadings ==
    (pg.site = "lennar" /\ pg.pc = "stable") =>
        /\ pg.triggers >= 2
        /\ ~Grows(pg.source, pg.triggers)
        /\ ~Grows(pg.source, pg.triggers - 1)

(***************************************************************************)
(* C9.  Whatever the content source, one that grows on every trigger       *)
(* included, the scroll loop issues at most the hard cap of trigger        *)
(* actions (100) and on reaching the cap has ended in the stable state.    *)
(***************************************************************************)
C9_HardCap ==
    /\ pg.triggers <= 100
    /\ (pg.pc \in {"loop", "stable"} /\ pg.triggers = 100) => pg.pc = "stable"

(***************************************************************************)
(* Reading a crawl.                                                        *)
(***************************************************************************)
Range(f) == {f[x] : x \in DOMAIN f}

\* the crawl found 5 nodes under one parent, and of them the 2nd, and no other
\* node of the crawl, failed
SecondOfFiveStatesFailed ==
    /\ crawl.kind = "lennar"
    /\ crawl.n = 5
    /\ crawl.m >= 1
    /\ crawl.failed = {<<"state", 2, 0>>}

SecondOfFiveCommunitiesFailed ==
    /\ crawl.kind = "lennar"
    /\ crawl.m = 5
    /\ \E i \in 1..crawl.n : crawl.failed = {<<"community", i, 2>>}

SecondOfFiveLocationsFailed ==
    /\ crawl.kind = "zillow"
    /\ crawl.n = 5
    /\ crawl.failed = {<<"location", 0, 2>>}

\* all the cards of the nodes of the crawl that did not fail
ResultsOfTheOthers ==
    IF crawl.kind = "lennar"
    THEN UNION { Range(Cards("lennar", i, j)) :
                    i \in {s \in 1..crawl.n : <<"state", s, 0>> \notin crawl.failed},
                    j \in 1..crawl.m } \
         UNION { Range(Cards("lennar", f[2], f[3])) :
                    f \in {g \in crawl.failed : g[1] = "community"} }
    ELSE UNION { Range(Cards("zillow", 0, l)) :
                    l \in {k \in 1..crawl.n : <<"location", 0, k>> \notin crawl.failed} }

Isolated ==
    /\ crawl.pc # "raised"
    /\ crawl.pc = "done" =>
          /\ Range(crawl.all_listings) = ResultsOfTheOthers
          /\ Len(crawl.all_listings) = Cardinality(ResultsOfTheOthers)

(***************************************************************************)
(* C1.  When the 2nd of the 5 nodes a crawl finds under one parent fails   *)
(* (its fetch fails, or fetching or parsing it raises), at whichever level *)
(* of the hierarchy, the crawl is not aborted: it goes on to nodes 3, 4    *)
(* and 5 and returns the full results of nodes 1, 3, 4 and 5.              *)
(***************************************************************************)
C1_FaultIsolation ==
    (SecondOfFiveStatesFailed \/ SecondOfFiveCommunitiesFailed \/ SecondOfFiveLocationsFailed)
        => Isolated

(***************************************************************************)
(* C3.  When every attempt of a fetch fails, _make_request returns None    *)
(* and raises nothing, and the caller (get_states,                         *)
(* get_communities_in_state, get_listings_from_community, search_homes,    *)
(* search_zillow_new_construction, scrape_lennar_profile) takes it as no   *)
(* data for that target: it raises nothing, yields no record (get_states   *)
(* falls back to the known states), and the crawl goes on to its next      *)
(* target and ends only when every target has been visited.                *)
(***************************************************************************)
AllAttemptsFail(script) == \A k \in 1..DefaultRetry : script[k] # "ok"

C3_ExhaustedIsNoData ==
    (crawl.last # NoVisit /\ crawl.last.script # NoScript
        /\ AllAttemptsFail(crawl.last.script)) =>
        /\ crawl.last.fetched = "None"
        /\ ~crawl.last.raised
        /\ crawl.last.level # "root" => crawl.last.yielded = << >>
        /\ crawl.last.level = "root" => Len(crawl.last.yielded) = crawl.n
        /\ crawl.pc \notin {"raised", "idle"}
        /\ (crawl.pc = "done" /\ crawl.kind \in {"lennar", "zillow"}) => crawl.i = crawl.n

C3_Witness ==
    /\ crawl.kind = "lennar"
    /\ crawl.last # NoVisit
    /\ crawl.last.level = "state"
    /\ AllAttemptsFail(crawl.last.script)
    /\ crawl.last.fetched = "None"
    /\ crawl.pc = "states"
    /\ crawl.i < crawl.n
    /\ Len(crawl.all_listings) > 0

(***************************************************************************)
(* C10.  Merging a stream followed by a duplicate of itself yields as many *)
(* records as merging the stream once: combine_results of listings that    *)
(* hold every record twice (the list repeated, or each record doubled in   *)
(* place) returns as many rows as combine_results of the listings          *)
(* themselves.                                                             *)
(***************************************************************************)
Repeated(listings) == listings \o listings
Doubled(listings) == [k \in 1..(2 * Len(listings)) |-> listings[(k + 1) \div 2]]

C10_MergeIdempotent ==
    merge.pc = "combined" =>
        /\ Len(combine_results(Repeated(lennar_listings), Repeated(zillow_listings)))
              = Len(merge.combined)
        /\ Len(combine_results(Doubled(lennar_listings), Doubled(zillow_listings)))
              = Len(merge.combined)
        /\ Len(combine_results(lennar_listings \o lennar_listings, << >>))
              = Len(combine_results(lennar_listings, << >>))
        /\ Len(combine_results(<< >>, zillow_listings \o zillow_listings))
              = Len(combine_results(<< >>, zillow_listings))

C10_Witness ==
    /\ merge.pc = "combined"
    /\ Len(lennar_listings) = 1
    /\ Len(zillow_listings) = 1
    /\ Len(merge.combined) = 2
    /\ Len(combine_results(Repeated(lennar_listings), Repeated(zillow_listings))) = 2

(***************************************************************************)
(* Reading a merge.                                                        *)
(***************************************************************************)
\* the records combine_results reads, in the order it reads them: the Lennar
\* stream, then the Zillow stream
InputStream ==
    [k \in 1..(Len(lennar_listings) + Len(zillow_listings)) |->
        IF k <= Len(lennar_listings)
        THEN [source |-> "Lennar.com", rec |-> lennar_listings[k]]
        ELSE [source |-> "Zillow", rec |-> zillow_listings[k - Len(lennar_listings)]]]

AddressOf(e) == IF e.source = "Lennar.com" THEN e.rec.location ELSE e.rec.address

\* the identity key of a record of the stream (scrape.py, lines 113 and 138)
IdentityKey(e) ==
    IF e.source = "Lennar.com"
    THEN << IF e.rec.location # "" THEN e.rec.location ELSE e.rec.community_name,
            e.rec.price >>
    ELSE << e.rec.address, e.rec.price >>

\* the positions of the stream whose key no earlier position has
Firsts ==
    {k \in DOMAIN InputStream :
        \A j \in 1..(k - 1) : IdentityKey(InputStream[j]) # IdentityKey(InputStream[k])}

\* the p-th smallest element of a set of numbers
RECURSIVE Nth(_, _)
Nth(S, p) ==
    LET lo == CHOOSE x \in S : \A y \in S : x <= y
    IN  IF p = 1 THEN lo ELSE Nth(S \ {lo}, p - 1)

FieldsUnchanged(row, e) ==
    /\ row.source = e.source
    /\ row.community_name = e.rec.community_name
    /\ row.address = AddressOf(e)
    /\ row.price = e.rec.price

(***************************************************************************)
(* C11.  The output of combine_results is the stream (Lennar, then Zillow) *)
(* with every record that is not the first of its identity key left out:   *)
(* its rows are, in stream order and with their fields unchanged, exactly  *)
(* the first record of each key, and no later record of a key appears.     *)
(***************************************************************************)
C11_FirstSeenWins ==
    merge.pc = "combined" =>
        /\ Len(merge.combined) = Cardinality(Firsts)
        /\ \A p \in 1..Len(merge.combined) :
              FieldsUnchanged(merge.combined[p], InputStream[Nth(Firsts, p)])

C11_Witness ==
    /\ merge.pc = "combined"
    /\ Len(lennar_listings) = 1
    /\ Len(zillow_listings) = 1
    /\ lennar_listings[1].location = ""
    /\ IdentityKey(InputStream[1]) = IdentityKey(InputStream[2])
    /\ Len(merge.combined) = 1
    /\ merge.combined[1].source = "Lennar.com"

(***************************************************************************)
(* C12.  A record that has neither an address nor a community name, or     *)
(* that has no price, is never dropped by the merge: every such record of  *)
(* the input is a row of the output, also when another record has the same *)
(* (empty) address or community and the same (empty) price.                *)
(***************************************************************************)
Unmatchable(address, community_name, price) ==
    \/ (address = "" /\ community_name = "")
    \/ price = ""

UnmatchableInputs ==
    {k \in DOMAIN InputStream :
        Unmatchable(AddressOf(InputStream[k]), InputStream[k].rec.community_name,
                    InputStream[k].rec.price)}

UnmatchableRows ==
    {p \in DOMAIN merge.combined :
        Unmatchable(merge.combined[p].address, merge.combined[p].community_name,
                    merge.combined[p].price)}

C12_UnmatchableKept ==
    merge.pc = "combined" => Cardinality(UnmatchableRows) = Cardinality(UnmatchableInputs)

(***************************************************************************)
(* C13.  Two records are duplicates for the merge exactly when their       *)
(* address (or, lacking one, community name) is equal ignoring letter case *)
(* and whitespace and their numeric price is equal: of records that have   *)
(* an address or community name and a price, the output holds one row for  *)
(* each normalized key, so that "1 Elm St" and "1 elm st", or "$500,000"   *)
(* and "$500000", collapse into one.                                       *)
(***************************************************************************)
\* the characters of the strings of Locations, Communities and Prices
Chars(str) ==
    CASE str = "" -> << >>
      [] str = "1 Elm St" -> <<"1", " ", "E", "l", "m", " ", "S", "t">>
      [] str = "1 elm st" -> <<"1", " ", "e", "l", "m", " ", "s", "t">>
      [] str = "Oak" -> <<"O", "a", "k">>
      [] str = "$500,000" -> <<"$", "5", "0", "0", ",", "0", "0", "0">>
      [] str = "$500000" -> <<"$", "5", "0", "0", "0", "0", "0">>

Lower(c) ==
    CASE c = "E" -> "e" [] c = "S" -> "s" [] c = "O" -> "o" [] OTHER -> c

IsNotSpace(c) == c # " "

IgnoringCaseAndSpace(str) ==
    LET t == SelectSeq(Chars(str), IsNotSpace)
    IN  [i \in DOMAIN t |-> Lower(t[i])]

NormalizedKey(e) ==
    << IgnoringCaseAndSpace(IF AddressOf(e) # "" THEN AddressOf(e) ELSE e.rec.community_name),
       ParsePrice(Chars(e.rec.price)) >>

C13_KeyNormalized ==
    (merge.pc = "combined" /\ UnmatchableInputs = {}) =>
        Len(merge.combined) =
            Cardinality({NormalizedKey(InputStream[k]) : k \in DOMAIN InputStream})

(***************************************************************************)
(* Reading a parse.                                                        *)
(***************************************************************************)
Emitted == parsed.kind \in {"card", "script"} /\ parsed.listing.emitted

DigitPositions(text) == {i \in DOMAIN text : text[i] \in Digits}

RECURSIVE Pow10(_)
Pow10(k) == IF k <= 0 THEN 1 ELSE 10 * Pow10(k - 1)

\* the sum, over the positions P of digits of the text, of the digit times the
\* power of ten of its place
RECURSIVE PlaceValues(_, _)
PlaceValues(text, P) ==
    IF P = {} THEN 0
    ELSE LET i == CHOOSE x \in P : TRUE
         IN  DigitValue(text[i])
                * Pow10(Cardinality({j \in DigitPositions(text) : j > i}))
             + PlaceValues(text, P \ {i})

\* the first non-empty result of a cascade of strategies, "" if there is none
FirstNonEmpty(strategies) ==
    LET full == {i \in DOMAIN strategies : strategies[i] # << >>}
    IN  IF full = {} THEN << >>
        ELSE strategies[CHOOSE i \in full : \A j \in full : i <= j]

\* the cascade of a field: the structural selector, the regular expression
\* over the card's text, the default ""
Cascade(elem, group) ==
    << IF elem.found THEN ExtractNumber(elem.text) ELSE << >>, group, << >> >>

(***************************************************************************)
(* C17.  For the bedrooms, bathrooms and square feet of a card, the value  *)
(* _parse_home_card gives is that of the first strategy, in the order      *)
(* structural selector, regular expression over the card's text, default,  *)
(* that yields a non-empty result: a later strategy is consulted whenever  *)
(* every earlier one yielded empty.                                        *)
(***************************************************************************)
C17_ExtractionCascade ==
    (Emitted /\ parsed.kind = "card" /\ parsed.site = "lennar") =>
        /\ parsed.listing.bedrooms =
              FirstNonEmpty(Cascade(parsed.card.bed_elem, parsed.card.bed_match.group))
        /\ parsed.listing.bathrooms =
              FirstNonEmpty(Cascade(parsed.card.bath_elem, parsed.card.bath_match.group))
        /\ parsed.listing.sqft =
              FirstNonEmpty(Cascade(parsed.card.sqft_elem,
                                    RemoveCommas(parsed.card.sqft_match.group)))

(***************************************************************************)
(* C18.  A card yields a record only if a meaningful field recovered from  *)
(* it is non-empty (the plan name or the price of a Lennar card, the       *)
(* address of a Zillow card or script entry): a card from which none was   *)
(* recovered yields no record, in every calling context.                   *)
(***************************************************************************)
RecoveredFromCard ==
    IF parsed.kind = "script" THEN Get(parsed.result.address, << >>) # << >>
    ELSE IF parsed.site = "zillow" THEN parsed.card.addr_elem.text # << >>
    ELSE parsed.card.name_elem.text # << >> \/ parsed.card.price_elem.text # << >>

C18_EmptyShellsDiscarded == Emitted => RecoveredFromCard

(***************************************************************************)
(* C19.  _parse_price and _extract_price return the integer formed by the  *)
(* digits of the text, in order, every other character removed, and None   *)
(* exactly when the text holds no digit.                                   *)
(***************************************************************************)
C19_ParsePrice ==
    parsed.kind = "price" =>
        /\ parsed.result.some <=> DigitPositions(parsed.price_text) # {}
        /\ parsed.result.some =>
              parsed.result.v =
                  PlaceValues(parsed.price_text, DigitPositions(parsed.price_text))

C19_Witness ==
    /\ parsed.kind = "price"
    /\ parsed.price_text = <<"5", ",", "0">>
    /\ parsed.result = SomeInt(50)

(***************************************************************************)
(* C20.  In every record a parser emits, price_numeric is present if and   *)
(* only if a parseable price was found for the listing (a price text with  *)
(* a digit; for a script entry without price text, its unformattedPrice);  *)
(* a listing without price has no price_numeric, never a placeholder.      *)
(***************************************************************************)
PriceFound ==
    IF parsed.kind = "card"
    THEN DigitPositions(parsed.card.price_elem.text) # {}
    ELSE \/ DigitPositions(Get(parsed.result.price, << >>)) # {}
         \/ Get(parsed.result.price, << >>) = << >> /\ parsed.result.unformattedPrice.has

C20_PriceInvariant == Emitted => (parsed.listing.price_numeric.some <=> PriceFound)

(***************************************************************************)
(* Reading a run.                                                          *)
(***************************************************************************)
Selected(site) == run.source \in {site, "both"}

ScrapeOver(site) == run.status[site] \in {"returned", "raised"}

(***************************************************************************)
(* C14.  Every scraper created during a run of main has had close() called *)
(* on it when the run has ended, on every exit path: normal completion, an *)
(* exception raised inside a source's scrape, KeyboardInterrupt during a   *)
(* scrape.                                                                 *)
(***************************************************************************)
C14_ScrapersClosed == run.pc = "exited" => run.closed = run.created

(***************************************************************************)
(* C15.  combine_results is invoked only after the scrape of every         *)
(* selected source has finished (returned or raised); nothing is merged or *)
(* exported while a source is still scraping or has yet to scrape, and the *)
(* merge runs at most once in a run.                                       *)
(***************************************************************************)
C15_MergeIsJoinPoint ==
    /\ run.merges <= 1
    /\ (run.merges >= 1 \/ run.exported # "none") =>
          \A site \in Sites : Selected(site) => ScrapeOver(site)
    /\ run.merges >= 1 => run.source = "both"

C15_Witness ==
    /\ run.source = "both"
    /\ run.merges = 1
    /\ run.status["lennar"] = "raised"
    /\ run.status["zillow"] = "returned"
    /\ Len(zillow_listings) = 1
    /\ Len(merge.combined) = 1

(***************************************************************************)
(* C16.  Whatever the selection of sources, a run in which a source's      *)
(* scrape raises an exception is not ended by it: the run still reaches    *)
(* the combine or export step and completes normally, possibly with no     *)
(* record.                                                                 *)
(***************************************************************************)
C16_FailuresNotFatal ==
    (run.pc = "exited" /\ \A site \in Sites : run.status[site] # "interrupted") =>
        /\ run.exit = "normal"
        /\ run.exported # "none"

(***************************************************************************)
(* C21.  In every record emitted, the state is empty or exactly two        *)
(* upper-case letters, whatever the location text and the state slug       *)
(* (a slug shorter than two characters or starting with a non-letter       *)
(* included) and whatever the Zillow script data hold; it is never a       *)
(* free-form string.                                                       *)
(***************************************************************************)
StateCode(text) ==
    text = << >> \/ (Len(text) = 2 /\ IsUpper(text[1]) /\ IsUpper(text[2]))

C21_StateCode ==
    /\ parsed.kind = "location" => StateCode(parsed.state)
    /\ (Emitted /\ parsed.kind = "script") => StateCode(parsed.listing.state)

(***************************************************************************)
(* C22.  _state_slug_to_abbrev maps the slug of each of the 50 states, and *)
(* the slug of the District of Columbia, to its postal abbreviation, and   *)
(* every other slug to its first two characters upper-cased.               *)
(***************************************************************************)
PostalSlugs ==
    {e.slug : e \in mapping} \cup {Word("district-of-columbia")}

Postal(slug) ==
    IF slug = Word("district-of-columbia") THEN <<"D", "C">>
    ELSE (CHOOSE e \in mapping : e.slug = slug).abbrev

SlugConverted ==
    /\ parsed.kind = "location"
    /\ parsed.state_hint # << >>
    /\ \A i \in DOMAIN parsed.location_text : ~StateMatchAt(parsed.location_text, i)

C22_SlugToAbbrev ==
    SlugConverted =>
        parsed.state =
            IF StrLower(parsed.state_hint) \in PostalSlugs
            THEN Postal(StrLower(parsed.state_hint))
            ELSE SubSeq(StrUpper(parsed.state_hint), 1,
                        IF Len(parsed.state_hint) < 2 THEN Len(parsed.state_hint) ELSE 2)

(***************************************************************************)
(* C23.  A card without an explicit house-type field gets its house type   *)
(* from the keywords of its text, in both scrapers: "townhome" or          *)
(* "townhouse" gives Townhome, otherwise "condo" gives Condominium,        *)
(* otherwise Single Family; the house type inferred is never empty.        *)
(***************************************************************************)
KeywordPriority(text) ==
    LET lowered == StrLower(text)
    IN  IF Contains(lowered, Word("townhome")) \/ Contains(lowered, Word("townhouse"))
        THEN Word("Townhome")
        ELSE IF Contains(lowered, Word("condo")) THEN Word("Condominium")
        ELSE Word("Single Family")

TextOfCard ==
    IF parsed.site = "lennar" THEN parsed.card.card_text ELSE parsed.card.details_elem.text

\* the inference has run: _parse_home_card found no type element; _parse_zillow_card
\* found the details and handed their text to _parse_details
NoExplicitType ==
    IF parsed.site = "lennar" THEN ~parsed.card.type_elem.found
    ELSE parsed.card.details_elem.found

C23_HouseTypeInference ==
    (Emitted /\ parsed.kind = "card" /\ NoExplicitType) =>
        /\ parsed.listing.house_type = KeywordPriority(TextOfCard)
        /\ parsed.listing.house_type # << >>

(***************************************************************************)
(* Reading a walk.                                                         *)
(***************************************************************************)
\* the positions of a sequence of keys at which a key occurs for the first time
FirstAt(keys) == {k \in DOMAIN keys : \A h \in 1..(k - 1) : keys[h] # keys[k]}

RECURSIVE Pick(_, _, _)
Pick(items, positions, k) ==
    IF k > Len(items) THEN << >>
    ELSE (IF k \in positions THEN <<items[k]>> ELSE << >>) \o Pick(items, positions, k + 1)

UrlsOf(entries) == [k \in DOMAIN entries |-> entries[k].url]

NoTwoAlike(keys) == \A a, b \in DOMAIN keys : keys[a] = keys[b] => a = b

\* the list holds first occurrences only, in the order of the document
FirstOccurrencesOf(list, discovered) ==
    \E positions \in SUBSET FirstAt(UrlsOf(discovered)) : list = Pick(discovered, positions, 1)

IsPrefix(short, long) ==
    Len(short) <= Len(long) /\ short = SubSeq(long, 1, Len(short))

StateRead == walk.last.level = "state" /\ walk.last.parse = "ok"

(***************************************************************************)
(* C24.  The list of children returned for a parent, by get_states for the *)
(* root and by get_communities_in_state for a state, holds no two entries  *)
(* with the same url, holds of each url its first occurrence, in the order *)
(* of discovery, and is computed before any child is descended into: it    *)
(* does not change while the children are visited.                         *)
(***************************************************************************)
ChildListDeduplicated(list, discovered) ==
    /\ NoTwoAlike(UrlsOf(list))
    /\ FirstOccurrencesOf(list, discovered)
    /\ \A k \in DOMAIN discovered : \E c \in DOMAIN list : list[c].slug = discovered[k].slug

CommunityListDeduplicated(list, discovered) ==
    /\ NoTwoAlike(UrlsOf(list))
    /\ list = Pick(discovered, FirstAt(UrlsOf(discovered)), 1)

Target(request) == <<request.level, request.url>>

Level(level) == {k \in DOMAIN walk.visits : walk.visits[k].level = level}

Last(positions) == CHOOSE h \in positions : \A g \in positions : g <= h

\* the state whose page was requested last before request k
StateBefore(states, k) ==
    LET before == {h \in states : h < k}
    IN  IF before = {} THEN "" ELSE walk.visits[Last(before)].url

\* the visits of the communities that the listings were made from
VisitsOf(listings, communities) ==
    [a \in DOMAIN listings |->
        {k \in communities : /\ walk.visits[k].url = listings[a].community
                             /\ walk.visits[k].parent = listings[a].state}]

IdentityOf(listing) == <<listing.community, listing.card>>

C28_ListingsDeduplicated ==
    NoTwoAlike([k \in DOMAIN walk.all_listings |-> IdentityOf(walk.all_listings[k])])

(***************************************************************************)
(* C29.  Whatever retry_count n >= 0 and whatever the server answers, a    *)
(* call of _make_request sends exactly min(j, n) requests, j being the     *)
(* first attempt that succeeds (n if none does), returns the response of   *)
(* that attempt with no further request, sleeps exactly once between two   *)
(* consecutive attempts and never after the last (one sleep fewer than     *)
(* requests, none when no request is sent), and returns None exactly when  *)
(* all n attempts failed.                                                  *)
(***************************************************************************)
Successes(c) ==
    {k \in 1..c.retry_count : AttemptOutcome(c.url, c.script, k - 1) = "ok"}

\* min(j, n)
FirstSuccess(c) ==
    IF Successes(c) = {} THEN c.retry_count
    ELSE CHOOSE j \in Successes(c) : \A k \in Successes(c) : j <= k

SleepsBetween(c, from, to) ==
    {i \in DOMAIN c.trace : IsSleep(c.trace[i]) /\ from < i /\ i < to}

SupportedCall(c) == c # NoCall /\ c.method \in {"GET", "POST"}

LocationsCalls == {k \in DOMAIN ops : ops[k].op = "locations"}

LastLocationsCall ==
    IF LocationsCalls = {} THEN 0
    ELSE CHOOSE k \in LocationsCalls : \A h \in LocationsCalls : h <= k

RECURSIVE FoundFrom(_)
FoundFrom(k) ==
    IF k > Len(ops) THEN << >>
    ELSE (IF k = 0 THEN << >> ELSE Gathered(ops[k].results, 1)) \o FoundFrom(k + 1)

C30_ZillowListings ==
    [][/\ ops' # ops => ops' = Append(ops, ops'[Len(ops')])
       /\ (ops' # ops /\ ops'[Len(ops')].op = "profile") =>
              zillow_listings' = zillow_listings \o Gathered(ops'[Len(ops')].results, 1)
       /\ (ops' # ops /\ ops'[Len(ops')].op = "locations") =>
              zillow_listings' = Gathered(ops'[Len(ops')].results, 1)
       /\ zillow_listings' = FoundFrom(LastLocationsCall)']_vars

C30_Witness ==
    /\ Len(ops) = 3
    /\ ops[1].op = "profile" /\ Len(Gathered(ops[1].results, 1)) = CardsPerPage
    /\ ops[2].op = "locations" /\ Len(ops[2].results) = 2
    /\ ops[2].results[1].raised /\ Len(ops[2].results[2].yielded) = CardsPerPage
    /\ ops[3].op = "profile" /\ Len(Gathered(ops[3].results, 1)) = CardsPerPage
    /\ Len(zillow_listings) = 2 * CardsPerPage

====
